---- MODULE Spec2Model ----
(***************************************************************************)
(* Putaway recommendation of StockRight-Agentic-Logistics-Engine.          *)
(*                                                                         *)
(* Conventions.  A Python str is a sequence of one-character strings, so   *)
(* that startswith, slicing and isalpha are computed character by          *)
(* character.  Python's None is the one-element sequence <<"None">>, which *)
(* is no str, since "None" is not a character.  A dict is a record, and a  *)
(* key the dict lacks is a field the record lacks.  A percentage (a Python *)
(* float) is counted in hundredths of a percent.  An f-string is the       *)
(* tuple of its template's name and the values it interpolates.  Where a   *)
(* dict is expected, None is the empty function <<>>: the code only tests  *)
(* such a value for truth, and None and {} are both false.                 *)
(***************************************************************************)
EXTENDS Integers, Sequences, FiniteSets, TLC

VARIABLES
    points,         \* what qdrant.retrieve finds for part 1: <<>> or <<payload>>
    location,       \* the location table: code -> clientId (NULL when free)
    audit_enabled,  \* config.ENABLE_AUDIT_LOG
    result,         \* the dict the last call returned (<<>>: none)
    raised,         \* the exception the last call raised ("": none)
    lookups,        \* the codes the last call looked up, in order
    prompts,        \* the prompts the last call sent to the text generator
    audit_calls,    \* the keyword arguments the last call gave the audit logger
    audit_log,      \* the audit events the last call wrote
    trace,          \* the collaborator calls of the last call, in order
    part_id_in,     \* the part id the last call was given (0: no call yet)
    calls_made,     \* the calls of get_recommendation made so far
    previous,       \* what the call before the last returned, less its prose
    code_in,        \* the code handed to is_valid_location
    code_valid,     \* what is_valid_location answered ("": not asked yet)
    best_in,        \* the best location handed to the phrase selection
    phrase,         \* the phrase selected (emphasis "": not selected yet)
    gemini_in,      \* the outcome of the text generator ("": not asked yet)
    explanation,    \* ai_text: call_gemini(model, prompt) or fallback
    explain_raised, \* the exception the explanation raised ("": none)
    cli_printed,    \* what the command-line recommend_putaway printed
    cli_raised,     \* the exception its last call raised ("": none)
    cli_fetch_failed,   \* qdrant.retrieve raised in its last call
    cli_lookup_failed,  \* a location lookup raised in its last call
    loc_input,      \* the text of the confirm form's location field
    feedback,       \* what the confirm handler showed ("": nothing yet)
    override_calls, \* the keyword arguments it gave log_override
    override_log,   \* the override events written
    retry_variant,  \* which retry_on_failure wraps the function
    max_retries,    \* retry_on_failure(max_retries, delay)
    delay,
    last_exception, \* the exception of the last failed attempt
    attempt,        \* the attempts of the wrapped function made so far
    current_delay,  \* the wait before the next attempt
    sleeps,         \* the waits so far, in order
    outcomes,       \* what each attempt returned or raised, in order
    retry_state,    \* "running", "returned" or "raised"
    retry_out,      \* the value returned or the exception raised
    part_id_str,    \* the text of the page's part id field at the last click
    session_state,  \* st.session_state: a dict, empty for a new session
    shown_error,    \* what the last click showed with st.error ("": nothing)
    displayed,      \* the result the page renders (<<>>: none)
    part_data,      \* the knowledge-base file of the script's part (<<>>: none)
    script_printed, \* the lines the script's recommend_putaway printed
    script_lookups, \* the codes it looked up, in order
    script_closed,  \* it closed its cursor
    pool_free,      \* the connections the pool holds
    open_cursors,   \* the cursors opened and not closed
    pool_trace,      \* what the last call did with pool, connection and cursor
    deployment,     \* which app.py serves: "cloud" (src/app.py) or "local"
    threads,        \* each get_recommendation call in flight: its position and locals
    pending         \* per connection: the result set of the last statement, unread

None == <<"None">>

\* bool(x) of a str or None: None and the empty str are falsy.
Truthy(x) == x # None /\ x # <<>>

\* d.get(k, default)
Get(d, k, default) == IF k \in DOMAIN d THEN d[k] ELSE default

\* A float written whole.hh, in hundredths.
Pct(whole, hundredths) == whole * 100 + hundredths

(***************************************************************************)
(* Characters.                                                             *)
(***************************************************************************)
Letters ==
    {"A", "B", "C", "D", "E", "F", "G", "H", "I", "J", "K", "L", "M",
     "N", "O", "P", "Q", "R", "S", "T", "U", "V", "W", "X", "Y", "Z",
     "a", "b", "z"}

Digits == {"0", "1", "2", "3", "4", "5", "6", "7", "8", "9"}

\* str.isalpha(): at least one character and every character a letter.
isalpha(s) == Len(s) >= 1 /\ \A i \in 1..Len(s) : s[i] \in Letters

\* str.startswith(prefix)
startswith(s, prefix) ==
    Len(s) >= Len(prefix) /\ SubSeq(s, 1, Len(prefix)) = prefix

\* s[-2:]
LastTwo(s) == IF Len(s) >= 2 THEN SubSeq(s, Len(s) - 1, Len(s)) ELSE s

FLOOR == <<"F", "L", "O", "O", "R">>
REC == <<"R", "E", "C">>
ORD == <<"O", "R", "D">>

\* is_valid_location without the isalpha test on the last two characters.
is_valid_location_NoAlpha(location_code) ==
    IF ~Truthy(location_code) THEN FALSE
    ELSE IF \E p \in {FLOOR, REC, ORD} : startswith(location_code, p) THEN FALSE
    ELSE IF Len(location_code) >= 2
            /\ LET last_two == LastTwo(location_code)
               IN  last_two[1] = last_two[2]
         THEN FALSE
    ELSE TRUE

\* is_valid_location without the reserved prefixes.
is_valid_location_NoPrefix(location_code) ==
    IF ~Truthy(location_code) THEN FALSE
    ELSE IF Len(location_code) >= 2
            /\ LET last_two == LastTwo(location_code)
               IN  isalpha(last_two) /\ last_two[1] = last_two[2]
         THEN FALSE
    ELSE TRUE

\* is_valid_location without the test of the last two characters.
is_valid_location_NoDouble(location_code) ==
    IF ~Truthy(location_code) THEN FALSE
    ELSE IF \E p \in {FLOOR, REC, ORD} : startswith(location_code, p) THEN FALSE
    ELSE TRUE

is_valid_location(location_code) ==
    IF ~Truthy(location_code) THEN FALSE
    ELSE IF \E p \in {FLOOR, REC, ORD} : startswith(location_code, p) THEN FALSE
    ELSE IF Len(location_code) >= 2
            /\ LET last_two == LastTwo(location_code)
               IN  isalpha(last_two) /\ last_two[1] = last_two[2]
         THEN FALSE
    ELSE TRUE

(***************************************************************************)
(* The relational database: the part, client and location tables.          *)
(***************************************************************************)
\* SQL NULL in location.clientId (result[0] is None).
NULL == 0

\* part: id -> (code, description, clientId); client: id -> name.
PartTable ==
    (1 :> [code |-> <<"P", "1">>, description |-> <<"b", "o", "l", "t">>, clientId |-> 7])

ClientTable == (7 :> <<"A", "c", "m", "e">>)

\* check_location_availability with the test of clientId inverted.
check_location_availability_Inverted(location_code, table) ==
    IF location_code \notin DOMAIN table THEN "UNKNOWN"
    ELSE IF table[location_code] # NULL THEN "FREE" ELSE "OCCUPIED"

\* check_location_availability taking a code without a row for free.
check_location_availability_UnknownFree(location_code, table) ==
    IF location_code \notin DOMAIN table THEN "FREE"
    ELSE IF table[location_code] = NULL THEN "FREE" ELSE "OCCUPIED"

\* check_location_availability holding the location the last call
\* recommended for occupied.
check_location_availability_Sticky(location_code, table) ==
    IF "recommended" \in DOMAIN result /\ result.recommended.code = location_code
    THEN "OCCUPIED"
    ELSE IF location_code \notin DOMAIN table THEN "UNKNOWN"
    ELSE IF table[location_code] = NULL THEN "FREE" ELSE "OCCUPIED"

\* SELECT clientId FROM location WHERE code = %s; fetchone()
check_location_availability(location_code, table) ==
    IF location_code \notin DOMAIN table THEN "UNKNOWN"
    ELSE IF table[location_code] = NULL THEN "FREE" ELSE "OCCUPIED"

(***************************************************************************)
(* The text-generation collaborator.                                       *)
(***************************************************************************)
GeminiOutcomes == {"text", "empty_text", "no_candidates", "raises", "no_model"}

\* The body of call_gemini's try block: model.generate_content(...) and the
\* reading of its first part.  A missing model (None) raises the attribute
\* error; a response without candidates or parts falls through to None.
generate_content(outcome, prompt) ==
    IF outcome = "no_model" THEN [exc |-> "AttributeError", text |-> None]
    ELSE IF outcome = "raises" THEN [exc |-> "GenerationError", text |-> None]
    ELSE IF outcome = "text" THEN [exc |-> "", text |-> <<"gemini", prompt>>]
    ELSE IF outcome = "empty_text" THEN [exc |-> "", text |-> <<>>]
    ELSE [exc |-> "", text |-> None]

\* call_gemini without its except clause.
call_gemini_NoCatch(outcome, prompt) == generate_content(outcome, prompt)

\* call_gemini: try: ... except Exception: pass; return None
call_gemini(outcome, prompt) ==
    LET response == generate_content(outcome, prompt)
    IN  IF response.exc # "" THEN [exc |-> "", text |-> None] ELSE response

\* x or y
Or(x, y) == IF Truthy(x) THEN x ELSE y

(***************************************************************************)
(* The ranking of get_recommendation.                                      *)
(***************************************************************************)
\* The statement check_location_availability executes, as an update that
\* claims the location.
LocationQuery_Claim(location_code) == [verb |-> "UPDATE", code |-> location_code]

\* The statement check_location_availability executes.
LocationQuery(location_code) == [verb |-> "SELECT", code |-> location_code]

\* The location table after the database executed a statement: a SELECT
\* leaves it as it is, an UPDATE sets the clientId of the row.
Execute(table, statement) ==
    IF statement.verb = "SELECT" THEN table
    ELSE [c \in DOMAIN table \cup {statement.code} |->
             IF c = statement.code THEN 7 ELSE table[c]]

RECURSIVE ExecuteAll(_, _, _)
ExecuteAll(table, statements, i) ==
    IF i > Len(statements) THEN table
    ELSE ExecuteAll(Execute(table, statements[i]), statements, i + 1)

\* The loop from the last record of the history to the first.
RECURSIVE ScanLocations_Backwards(_, _, _, _, _)
ScanLocations_Backwards(locations, i, table, down_at, acc) ==
    IF i > Len(locations) \/ acc.exc # "" THEN acc
    ELSE LET loc == locations[Len(locations) - i + 1]
             code == Get(loc, "code", None)
         IN  IF ~is_valid_location(code)
             THEN ScanLocations_Backwards(locations, i + 1, table, down_at, acc)
             ELSE IF Len(acc.lookups) + 1 = down_at
             THEN [acc EXCEPT !.exc = "DatabaseError",
                              !.lookups = Append(@, code)]
             ELSE LET status == check_location_availability(code, table)
                      entry == [code |-> code,
                                count |-> Get(loc, "count", 0),
                                percentage |-> Get(loc, "percentage", 0)]
                  IN  ScanLocations_Backwards(locations, i + 1, table, down_at,
                          [available |-> IF status = "FREE"
                                         THEN Append(acc.available, entry)
                                         ELSE acc.available,
                           lookups |-> Append(acc.lookups, code),
                           statements |-> Append(acc.statements,
                                                 LocationQuery(code)),
                           exc |-> ""])

\* for loc in locations: ... available.append(...).  The database fails at
\* the lookup numbered down_at (0: it does not fail), and the exception
\* leaves the loop.
RECURSIVE ScanLocations(_, _, _, _, _)
ScanLocations(locations, i, table, down_at, acc) ==
    IF i > Len(locations) \/ acc.exc # "" THEN acc
    ELSE LET loc == locations[i]
             code == Get(loc, "code", None)
         IN  IF ~is_valid_location(code)
             THEN ScanLocations(locations, i + 1, table, down_at, acc)
             ELSE IF Len(acc.lookups) + 1 = down_at
             THEN [acc EXCEPT !.exc = "DatabaseError",
                              !.lookups = Append(@, code)]
             ELSE LET status == check_location_availability(code, table)
                      entry == [code |-> code,
                                count |-> Get(loc, "count", 0),
                                percentage |-> Get(loc, "percentage", 0)]
                  IN  ScanLocations(locations, i + 1, table, down_at,
                          [available |-> IF status = "FREE"
                                         THEN Append(acc.available, entry)
                                         ELSE acc.available,
                           lookups |-> Append(acc.lookups, code),
                           statements |-> Append(acc.statements,
                                                 LocationQuery(code)),
                           exc |-> ""])

\* The sort key without its sign: ascending counts.
SortKey_Ascending(x) == x.count

\* The sort key: lambda x: -x["count"]
SortKey(x) == 0 - x.count

\* list.sort is stable: an element goes behind every element whose key is
\* not greater than its own.
RECURSIVE InsertByKey_Unstable(_, _)
InsertByKey_Unstable(x, sorted) ==
    IF sorted = <<>> THEN <<x>>
    ELSE IF SortKey(Head(sorted)) < SortKey(x)
         THEN <<Head(sorted)>> \o InsertByKey_Unstable(x, Tail(sorted))
         ELSE <<x>> \o sorted

RECURSIVE InsertByKey(_, _)
InsertByKey(x, sorted) ==
    IF sorted = <<>> THEN <<x>>
    ELSE IF SortKey(Head(sorted)) <= SortKey(x)
         THEN <<Head(sorted)>> \o InsertByKey(x, Tail(sorted))
         ELSE <<x>> \o sorted

\* The sort that keeps one entry for each code.
RECURSIVE SortAvailable_Unique(_, _, _)
SortAvailable_Unique(available, i, sorted) ==
    IF i > Len(available) THEN sorted
    ELSE IF \E j \in 1..Len(sorted) : sorted[j].code = available[i].code
    THEN SortAvailable_Unique(available, i + 1, sorted)
    ELSE SortAvailable_Unique(available, i + 1,
                              InsertByKey(available[i], sorted))

RECURSIVE SortAvailable(_, _, _)
SortAvailable(available, i, sorted) ==
    IF i > Len(available) THEN sorted
    ELSE SortAvailable(available, i + 1, InsertByKey(available[i], sorted))

\* available[a:b] with 0 <= a <= b (Python's half-open slice)
Slice(s, a, b) ==
    LET hi == IF b < Len(s) THEN b ELSE Len(s)
    IN  IF a >= hi THEN <<>> ELSE SubSeq(s, a + 1, hi)

\* The phrase selection with the count branch folded into the percentage
\* branch.
Emphasis_OneMedium(best) ==
    IF best.percentage >= Pct(50, 0)
    THEN [emphasis |-> "most preferred location",
          detail |-> <<"used for majority of putaways", best.percentage>>]
    ELSE IF best.percentage >= Pct(20, 0) \/ best.count >= 5
    THEN [emphasis |-> "frequently used location",
          detail |-> <<"commonly used", best.percentage>>]
    ELSE [emphasis |-> "available location from historical patterns",
          detail |-> <<"based on available historical data">>]

\* The phrase chosen for the best location (emphasis, detail).
Emphasis(best) ==
    IF best.percentage >= Pct(50, 0)
    THEN [emphasis |-> "most preferred location",
          detail |-> <<"used for majority of putaways", best.percentage>>]
    ELSE IF best.percentage >= Pct(20, 0)
    THEN [emphasis |-> "frequently used location",
          detail |-> <<"commonly used", best.percentage>>]
    ELSE IF best.count >= 5
    THEN [emphasis |-> "historically used location",
          detail |-> <<"previously used multiple times">>]
    ELSE [emphasis |-> "available location from historical patterns",
          detail |-> <<"based on available historical data">>]

\* The fallback sentence chosen at the threshold of the strongest phrase.
Fallback_AtFifty(best) ==
    IF best.percentage >= Pct(50, 0)
    THEN <<"follows the established pattern", best.code>>
    ELSE <<"based on historical usage patterns", best.code>>

\* The sentence used when generation yields nothing.
Fallback(best) ==
    IF best.percentage >= Pct(30, 0)
    THEN <<"follows the established pattern", best.code>>
    ELSE <<"based on historical usage patterns", best.code>>

(***************************************************************************)
(* The history provider and the audit sink.                                *)
(***************************************************************************)
NoDict == <<>>

\* get_part_from_qdrant: results[0].payload if results else None.  results
\* is the list qdrant.retrieve returns for the id: empty, or the part's point.
get_part_from_qdrant(results) == IF results # <<>> THEN results[1] ELSE NoDict

\* AuditLogger.log_recommendation(**kw): nothing when the log is disabled;
\* otherwise the event is built and written, which raises when the event
\* cannot be written (json.dumps of a value that is no JSON value).
log_recommendation(enabled, writable, kw) ==
    IF ~enabled THEN [exc |-> "", events |-> <<>>]
    ELSE IF ~writable THEN [exc |-> "AuditError", events |-> <<>>]
    ELSE [exc |-> "",
          events |-> << [event_type |-> "recommendation",
                         user |-> "system",
                         part_id |-> kw.part_id,
                         part_code |-> kw.part_code,
                         recommended_location |-> kw.recommended_location,
                         status |-> kw.status,
                         usage_count |-> kw.usage_count,
                         usage_percentage |-> kw.usage_percentage,
                         alternatives_count |-> Len(kw.alternatives)] >>]

\* The zone text without the test for a missing zone.
ZoneText_NoCheck(zone) == <<"Zone ">> \o zone

\* available[1:5], as the chat script lists its alternatives.
Alternatives_Four(available) == Slice(available, 1, 5)

\* not qdrant_data or not qdrant_data.get("all_locations")
NoHistory(qdrant_data) ==
    qdrant_data = NoDict \/ Get(qdrant_data, "all_locations", <<>>) = <<>>

\* f"Zone {zone}" if zone else "any available zone"
ZoneText(zone) ==
    IF Truthy(zone) THEN <<"Zone ">> \o zone ELSE <<"any available zone">>

\* available[1:4]
Alternatives(available) == Slice(available, 1, 4)

\* [a['code'] for a in xs]
CodesOf(xs) == [i \in 1..Len(xs) |-> xs[i].code]

\* The keyword arguments of log_recommendation with every available
\* location but the best as an alternative.
recommendation_kwargs_AllOthers(part_id, part_code, best, available) ==
    [part_id |-> part_id,
     part_code |-> part_code,
     recommended_location |-> best.code,
     status |-> "FREE",
     usage_count |-> best.count,
     usage_percentage |-> best.percentage,
     alternatives |-> CodesOf(Slice(available, 1, Len(available)))]

\* The keyword arguments get_recommendation gives log_recommendation.
recommendation_kwargs(part_id, part_code, best, available) ==
    [part_id |-> part_id,
     part_code |-> part_code,
     recommended_location |-> best.code,
     status |-> "FREE",
     usage_count |-> best.count,
     usage_percentage |-> best.percentage,
     alternatives |-> CodesOf(Alternatives(available))]

\* The explanation of the best location: the phrase, the prompt, the
\* fallback and ai_text = call_gemini(model, prompt) or fallback.
Explain(best, part_code, client_name, gemini) ==
    LET selected == Emphasis(best)
        prompt == <<"recommend", part_code, client_name, best.code,
                    selected.emphasis, selected.detail>>
        fallback == Fallback(best)
        gen == call_gemini(gemini, prompt)
    IN  [phrase |-> selected,
         prompt |-> prompt,
         fallback |-> fallback,
         exc |-> gen.exc,
         ai_text |-> IF gen.exc # "" THEN None ELSE Or(gen.text, fallback)]

\* The part query without its WHERE clause: fetchone() gives the first row
\* of the table, whatever the id.
SelectPart_NoWhere(part_id) == PartTable[1]

\* SELECT id, code, description, clientId FROM part WHERE id = %s, then
\* cursor.fetchone(): the row of the id, or None.
SelectPart(part_id) ==
    IF part_id \in DOMAIN PartTable THEN PartTable[part_id] ELSE NoDict

(***************************************************************************)
(* get_recommendation(part_id): what it returns (ret) or raises (exc), the *)
(* occupancy lookups it makes and the statements it executes for them, the *)
(* prompts it sends, the keyword arguments it gives the audit logger       *)
(* (calls), the audit events written (events), and its collaborator calls  *)
(* in their order (trace).                                                 *)
(***************************************************************************)
Blank ==
    [ret |-> NoDict, exc |-> "", lookups |-> <<>>, statements |-> <<>>,
     prompts |-> <<>>, calls |-> <<>>, events |-> <<>>, trace |-> <<>>]

\* One "lookup" for each code looked up.
LookupTrace(codes) == [i \in 1..Len(codes) |-> "lookup"]

\* part_info
PartInfo(part_id, part_code, description, client_name, client_id) ==
    [part_id |-> part_id,
     part_code |-> part_code,
     description |-> Or(description, <<"N", "/", "A">>),
     client_name |-> client_name,
     client_id |-> client_id]

\* The dict returned for a part without history.
NoHistoryResult(part_info, qdrant_data) ==
    LET zone == IF qdrant_data # NoDict
                THEN Get(qdrant_data, "primary_zone", None) ELSE None
        zone_text == ZoneText(zone)
    IN  [part_id |-> part_info.part_id,
         part_code |-> part_info.part_code,
         description |-> part_info.description,
         client_name |-> part_info.client_name,
         client_id |-> part_info.client_id,
         status |-> "no_history",
         ai_summary |-> <<"no historical putaway data", zone_text>>]

\* get_recommendation from available.sort(...) on: found is the list the
\* loop built, scanned the effects of the call so far.
Conclude(part_code, description, part_info, qdrant_data, scanned, found, gemini, audit_on, writable) ==
    LET part_id == part_info.part_id
        client_name == part_info.client_name
        available == SortAvailable(found, 1, <<>>)
        total_putaways == Get(qdrant_data, "total_putaways", 0)
    IN
    IF available = <<>>
    THEN LET zone == Get(qdrant_data, "primary_zone", <<"Unknown">>)
             prompt == <<"all occupied, advise", part_code, description,
                         client_name, zone>>
             gen == call_gemini(gemini, prompt)
             ai_text == Or(gen.text,
                           <<"All historical locations are occupied", zone>>)
             asked == [scanned EXCEPT !.prompts = <<prompt>>,
                                      !.trace = @ \o <<"generate">>]
         IN  IF gen.exc # "" THEN [asked EXCEPT !.exc = gen.exc]
             ELSE [asked EXCEPT
                      !.ret = [part_id |-> part_info.part_id,
                               part_code |-> part_info.part_code,
                               description |-> part_info.description,
                               client_name |-> part_info.client_name,
                               client_id |-> part_info.client_id,
                               status |-> "all_occupied",
                               ai_summary |-> ai_text,
                               zone |-> zone]]
    ELSE
    LET best == available[1]
        explained == Explain(best, part_code, client_name, gemini)
        asked == [scanned EXCEPT !.prompts = <<explained.prompt>>,
                                 !.trace = @ \o <<"generate">>]
        kw == recommendation_kwargs(part_id, part_code, best, available)
        logged == log_recommendation(audit_on, writable, kw)
        audited == [asked EXCEPT !.calls = <<kw>>,
                                 !.events = logged.events,
                                 !.trace = @ \o <<"audit">>]
    IN  IF explained.exc # "" THEN [asked EXCEPT !.exc = explained.exc]
        ELSE IF logged.exc # "" THEN [audited EXCEPT !.exc = logged.exc]
        ELSE [audited EXCEPT
                 !.ret = [part_id |-> part_info.part_id,
                          part_code |-> part_info.part_code,
                          description |-> part_info.description,
                          client_name |-> part_info.client_name,
                          client_id |-> part_info.client_id,
                          status |-> "ok",
                          recommended |-> best,
                          alternatives |-> Alternatives(available),
                          all_available |-> available,
                          total_putaways |-> total_putaways,
                          ai_summary |-> explained.ai_text]]

get_recommendation(part_id, results, fetch_ok, table, gemini, audit_on, down_at, writable) ==
    IF SelectPart(part_id) = NoDict
    THEN [Blank EXCEPT
             !.ret = [error |-> <<"Part not found in database", part_id>>],
             !.trace = <<"part">>]
    ELSE
    LET row == SelectPart(part_id)
        part_code == row.code
        description == row.description
        client_id == row.clientId
        client_name == IF client_id \in DOMAIN ClientTable
                       THEN ClientTable[client_id]
                       ELSE <<"Client", client_id>>
        part_info == PartInfo(part_id, part_code, description, client_name,
                              client_id)
        fetched == <<"part", "client", "fetch">>
    IN
    IF ~fetch_ok
    THEN [Blank EXCEPT !.exc = "QdrantError", !.trace = fetched]
    ELSE
    LET qdrant_data == get_part_from_qdrant(results) IN
    IF NoHistory(qdrant_data)
    THEN [Blank EXCEPT !.ret = NoHistoryResult(part_info, qdrant_data),
                       !.trace = fetched]
    ELSE
    LET locations == qdrant_data.all_locations
        scan == ScanLocations(locations, 1, table, down_at,
                              [available |-> <<>>, lookups |-> <<>>,
                               statements |-> <<>>, exc |-> ""])
        scanned == [Blank EXCEPT
                       !.lookups = scan.lookups,
                       !.statements = scan.statements,
                       !.trace = fetched \o LookupTrace(scan.lookups)]
    IN
    IF scan.exc # "" THEN [scanned EXCEPT !.exc = scan.exc]
    ELSE Conclude(part_code, description, part_info, qdrant_data, scanned,
                  scan.available, gemini, audit_on, writable)

(***************************************************************************)
(* State.                                                                  *)
(***************************************************************************)
vars == <<points, location, audit_enabled, result, raised, lookups, prompts,
          audit_calls, audit_log, trace, part_id_in, calls_made, previous, code_in,
          code_valid, best_in, phrase, gemini_in, explanation, explain_raised,
          cli_printed, cli_raised, cli_fetch_failed, cli_lookup_failed,
          loc_input, feedback, override_calls, override_log,
          retry_variant, max_retries, delay, last_exception, attempt,
          current_delay, sleeps, outcomes, retry_state, retry_out,
          part_id_str, session_state, shown_error, displayed,
          part_data, script_printed, script_lookups, script_closed,
          pool_free, open_cursors, pool_trace, deployment, threads, pending>>

rankVars == <<points, location, audit_enabled, result, raised, lookups,
              prompts, audit_calls, audit_log, trace, part_id_in>>
againVars == <<calls_made, previous>>
validVars == <<code_in, code_valid>>
phraseVars == <<best_in, phrase, gemini_in, explanation, explain_raised>>
cliVars == <<cli_printed, cli_raised, cli_fetch_failed, cli_lookup_failed>>
confirmVars == <<loc_input, feedback, override_calls, override_log>>
retryVars == <<retry_variant, max_retries, delay, last_exception, attempt,
               current_delay, sleeps, outcomes, retry_state, retry_out>>
sessionVars == <<part_id_str, session_state, shown_error, displayed>>
scriptVars == <<part_data, script_printed, script_lookups, script_closed>>
poolVars == <<pool_free, open_cursors, pool_trace>>
threadVars == <<deployment, threads, pending>>
laterVars == <<sessionVars, scriptVars, poolVars, threadVars>>
extraVars == <<cliVars, confirmVars, retryVars, laterVars>>

NoPhrase == [emphasis |-> "", detail |-> <<>>]

\* The variables a specification does not use stay as they are here.
RankIdle ==
    /\ points = <<>>
    /\ location = [c \in {} |-> NULL]
    /\ audit_enabled = TRUE
    /\ result = NoDict
    /\ raised = ""
    /\ lookups = <<>>
    /\ prompts = <<>>
    /\ audit_calls = <<>>
    /\ audit_log = <<>>
    /\ trace = <<>>
    /\ part_id_in = 0

AgainIdle == calls_made = 0 /\ previous = NoDict

ValidIdle == code_in = <<>> /\ code_valid = ""

PhraseIdle ==
    /\ best_in = [code |-> <<>>, count |-> 0, percentage |-> 0]
    /\ phrase = NoPhrase
    /\ gemini_in = ""
    /\ explanation = <<>>
    /\ explain_raised = ""

CliIdle ==
    /\ cli_printed = NoDict
    /\ cli_raised = ""
    /\ cli_fetch_failed = FALSE
    /\ cli_lookup_failed = FALSE

ConfirmIdle ==
    /\ loc_input = None
    /\ feedback = ""
    /\ override_calls = <<>>
    /\ override_log = <<>>

RetryIdle ==
    /\ retry_variant = ""
    /\ max_retries = 0
    /\ delay = 0
    /\ last_exception = "None"
    /\ attempt = 0
    /\ current_delay = 0
    /\ sleeps = <<>>
    /\ outcomes = <<>>
    /\ retry_state = ""
    /\ retry_out = ""

SessionIdle ==
    /\ part_id_str = <<>>
    /\ session_state = <<>>
    /\ shown_error = ""
    /\ displayed = <<>>

ScriptIdle ==
    /\ part_data = <<>>
    /\ script_printed = <<>>
    /\ script_lookups = <<>>
    /\ script_closed = FALSE

PoolIdle ==
    /\ pool_free = 0
    /\ open_cursors = 0
    /\ pool_trace = <<>>

ThreadIdle ==
    /\ deployment = ""
    /\ threads = <<>>
    /\ pending = <<>>

LaterIdle == SessionIdle /\ ScriptIdle /\ PoolIdle /\ ThreadIdle

ExtraIdle == CliIdle /\ ConfirmIdle /\ RetryIdle /\ LaterIdle

(***************************************************************************)
(* Inputs.                                                                 *)
(***************************************************************************)
MaxLocs == 5
MaxShort == 2

TN52D == <<"T", "N", "5", "2", "D">>
SG01J == <<"S", "G", "0", "1", "J">>
FLOOR1 == <<"F", "L", "O", "O", "R", "1">>
SG01AA == <<"S", "G", "0", "1", "A", "A">>

\* The usage records of the long histories: two shelf locations, one of
\* them with two records, and two records of equal count.
CoreRecords ==
    { [code |-> TN52D, count |-> 15, percentage |-> Pct(60, 0)],
      [code |-> SG01J, count |-> 8, percentage |-> Pct(28, 30)],
      [code |-> TN52D, count |-> 8, percentage |-> Pct(15, 10)] }

\* The usage records of the short histories add a rarely used record, a
\* floor location and a subdivided location with the highest counts of
\* all, and a record that lacks its code.
UsageRecords ==
    CoreRecords
    \cup { [code |-> SG01J, count |-> 3, percentage |-> Pct(5, 66)],
           [code |-> FLOOR1, count |-> 20, percentage |-> Pct(50, 0)],
           [code |-> SG01AA, count |-> 20, percentage |-> Pct(50, 0)],
           [count |-> 20, percentage |-> Pct(50, 0)] }

ListsOf(records, n) == UNION {[1..m -> records] : m \in 0..n}

ShortLists == ListsOf(UsageRecords, MaxShort)

Lists == ShortLists \cup ListsOf(CoreRecords, MaxLocs)

Payloads ==
    {[all_locations |-> ls, total_putaways |-> 53, primary_zone |-> <<"T">>] :
        ls \in Lists}
    \cup {[all_locations |-> ls, total_putaways |-> 53] : ls \in ShortLists}
    \cup {[all_locations |-> ls, primary_zone |-> None] : ls \in ShortLists}
    \cup {[total_putaways |-> 0, primary_zone |-> <<"T">>]}

\* A shelf location has no row, is free, or holds stock of client 7; the
\* floor location and the subdivided location are free.
LocationTables ==
    {t \in UNION {[D \cup {FLOOR1, SG01AA} -> {NULL, 7}] :
                      D \in SUBSET {TN52D, SG01J}} :
        t[FLOOR1] = NULL /\ t[SG01AA] = NULL}

PartIds == {1, 2}

\* The histories with which the audit log is also tried disabled.
QuietPayloads ==
    {[all_locations |-> ls, total_putaways |-> 53, primary_zone |-> <<"T">>] :
        ls \in ShortLists}

\* The lookups at which the database is tried failing.
MaxDownAt == 2

Init ==
    /\ \/ /\ points \in {<<>>} \cup {<<p>> : p \in Payloads}
          /\ audit_enabled = TRUE
       \/ /\ points \in {<<p>> : p \in QuietPayloads}
          /\ audit_enabled = FALSE
    /\ location \in LocationTables
    /\ result = NoDict
    /\ raised = ""
    /\ lookups = <<>>
    /\ prompts = <<>>
    /\ audit_calls = <<>>
    /\ audit_log = <<>>
    /\ trace = <<>>
    /\ part_id_in = 0
    /\ AgainIdle
    /\ ValidIdle
    /\ PhraseIdle
    /\ ExtraIdle

(***************************************************************************)
(* The request: one call of get_recommendation.  The history provider is   *)
(* only read (qdrant.retrieve); the database executes the statements of    *)
(* the call.                                                               *)
(***************************************************************************)
Call(part_id, fetch_ok, gemini, down_at, writable) ==
    \E call \in {get_recommendation(part_id, points, fetch_ok, location,
                                     gemini, audit_enabled, down_at, writable)} :
        /\ result' = call.ret
        /\ raised' = call.exc
        /\ lookups' = call.lookups
        /\ prompts' = call.prompts
        /\ audit_calls' = call.calls
        /\ audit_log' = call.events
        /\ trace' = call.trace
        /\ part_id_in' = part_id
        /\ location' = ExecuteAll(location, call.statements, 1)
        /\ UNCHANGED <<points, audit_enabled, validVars, phraseVars, cliVars,
                     retryVars>>

Request(part_id, fetch_ok, gemini, down_at, writable) ==
    /\ Call(part_id, fetch_ok, gemini, down_at, writable)
    /\ UNCHANGED <<againVars, confirmVars, laterVars>>

\* Every collaborator answers; the history provider is unreachable through
\* every retry; the database fails at a lookup; the audit event cannot be
\* written.  A call that raises before it reaches the text generator is the
\* same call for every outcome of the generator.
Next ==
    \/ \E part_id \in PartIds, gemini \in GeminiOutcomes :
           Request(part_id, TRUE, gemini, 0, TRUE)
    \/ \E part_id \in PartIds : Request(part_id, FALSE, "text", 0, TRUE)
    \/ \E down_at \in 1..MaxDownAt : Request(1, TRUE, "text", down_at, TRUE)
    \/ \E gemini \in GeminiOutcomes : Request(1, TRUE, gemini, 0, FALSE)

Spec == Init /\ [][Next]_vars

(***************************************************************************)
(* Calls one after another over the same history and location table: the   *)
(* call before the last is remembered without its prose.                   *)
(***************************************************************************)
MaxCalls == 2

\* A returned dict without its ai_summary.
WithoutProse(r) == [k \in DOMAIN r \ {"ai_summary"} |-> r[k]]

InitAgain ==
    /\ points \in {<<>>} \cup {<<p>> : p \in QuietPayloads}
    /\ location \in LocationTables
    /\ audit_enabled = TRUE
    /\ result = NoDict
    /\ raised = ""
    /\ lookups = <<>>
    /\ prompts = <<>>
    /\ audit_calls = <<>>
    /\ audit_log = <<>>
    /\ trace = <<>>
    /\ part_id_in = 0
    /\ AgainIdle
    /\ ValidIdle
    /\ PhraseIdle
    /\ ExtraIdle

Again(part_id, fetch_ok, gemini, down_at, writable) ==
    /\ calls_made < MaxCalls
    /\ Call(part_id, fetch_ok, gemini, down_at, writable)
    /\ calls_made' = calls_made + 1
    /\ previous' = WithoutProse(result)
    /\ UNCHANGED <<confirmVars, laterVars>>

NextAgain ==
    \/ \E part_id \in PartIds, gemini \in GeminiOutcomes :
           Again(part_id, TRUE, gemini, 0, TRUE)
    \/ \E part_id \in PartIds : Again(part_id, FALSE, "text", 0, TRUE)
    \/ \E down_at \in 1..MaxDownAt : Again(1, TRUE, "text", down_at, TRUE)
    \/ \E gemini \in GeminiOutcomes : Again(1, TRUE, gemini, 0, FALSE)

SpecAgain == InitAgain /\ [][NextAgain]_vars

(***************************************************************************)
(* is_valid_location on its own: every code of TestCodes is checked.       *)
(***************************************************************************)
MaxTail == 2

CodeHeads ==
    { <<>>, FLOOR, REC, ORD, <<"F", "L", "O", "O">>, <<"R", "E">>, <<"O", "R">>,
      <<"X">> \o FLOOR, <<"f", "l", "o", "o", "r">>, <<"T", "N", "5">> }

TailChars == {"A", "B", "a", "1", "R", "C", "D"}

CodeTails == UNION {[1..m -> TailChars] : m \in 0..MaxTail}

TestCodes ==
    {h \o t : h \in CodeHeads, t \in CodeTails}
    \cup {None, TN52D, SG01J, FLOOR1, SG01AA}

InitValid ==
    /\ RankIdle
    /\ AgainIdle
    /\ PhraseIdle
    /\ ExtraIdle
    /\ code_in \in TestCodes
    /\ code_valid = ""

CheckLocation ==
    /\ code_valid' = IF is_valid_location(code_in) THEN "valid" ELSE "invalid"
    /\ UNCHANGED <<code_in, rankVars, againVars, phraseVars, extraVars>>

NextValid == CheckLocation

SpecValid == InitValid /\ [][NextValid]_vars

(***************************************************************************)
(* The phrase selection on its own: every (percentage, count) is tried.    *)
(***************************************************************************)
MaxPercent == 100
MaxCount == 6

TestBests ==
    {[code |-> code, count |-> c, percentage |-> Pct(w, h)] :
        code \in {TN52D, SG01J}, c \in 0..MaxCount, w \in 0..MaxPercent,
        h \in {0, 1, 99}}

InitPhrase ==
    /\ RankIdle
    /\ AgainIdle
    /\ ValidIdle
    /\ ExtraIdle
    /\ best_in \in TestBests
    /\ phrase = NoPhrase
    /\ gemini_in = ""
    /\ explanation = <<>>
    /\ explain_raised = ""

\* best = available[0] ... ai_text = call_gemini(model, prompt) or fallback
SelectPhrase(gemini) ==
    \E explained \in {Explain(best_in, PartTable[1].code, ClientTable[7],
                               gemini)} :
        /\ phrase' = explained.phrase
        /\ gemini_in' = gemini
        /\ explanation' = explained.ai_text
        /\ explain_raised' = explained.exc
        /\ UNCHANGED <<best_in, rankVars, againVars, validVars, extraVars>>

NextPhrase == \E gemini \in GeminiOutcomes : SelectPhrase(gemini)

SpecPhrase == InitPhrase /\ [][NextPhrase]_vars

(***************************************************************************)
(* The command-line variant (warehouse_cli.py): recommend_putaway prints   *)
(* its outcome.  Its is_valid_location, check_location_availability, loop, *)
(* sort and phrases are those of get_recommendation, line for line.        *)
(***************************************************************************)
OllamaOutcomes == {"text", "nothing"}

\* OllamaClient.generate: the response text, or None on a status other than
\* 200, a timeout or any other exception.
ollama_generate(outcome, prompt) ==
    IF outcome = "text" THEN <<"ollama", prompt>> ELSE None

\* warehouse_cli.get_part_from_qdrant: except Exception: print(...); return
\* None.
cli_get_part_from_qdrant(results, fetch_ok) ==
    IF ~fetch_ok THEN NoDict
    ELSE IF results # <<>> THEN results[1] ELSE NoDict

\* generate_llm_explanation: the response, or the fallback by usage_pct.
generate_llm_explanation(best, part_code, client_name, ollama) ==
    LET selected == Emphasis(best)
        user_prompt == <<"recommend", part_code, client_name, best.code,
                         selected.emphasis, selected.detail>>
    IN  Or(ollama_generate(ollama, user_prompt), Fallback(best))

\* generate_no_pattern_explanation
generate_no_pattern_explanation(part_info, ollama) ==
    LET zone_info == ZoneText(part_info.primary_zone)
    IN  Or(ollama_generate(ollama, <<"no historical putaway data", zone_info>>),
           <<"No historical putaway data available", zone_info>>)

Silent == [printed |-> NoDict, exc |-> "", lookups |-> <<>>]

recommend_putaway(part_id, results, fetch_ok, table, down_at, ollama) ==
    IF part_id \notin DOMAIN PartTable
    THEN [Silent EXCEPT !.printed = [outcome |-> "not_found"]]
    ELSE
    LET row == PartTable[part_id]
        part_code == row.code
        client_id == row.clientId
        client_name == IF client_id \in DOMAIN ClientTable
                       THEN ClientTable[client_id]
                       ELSE <<"Client", client_id>>
        qdrant_data == cli_get_part_from_qdrant(results, fetch_ok)
    IN
    IF NoHistory(qdrant_data)
    THEN LET part_info == [part_id |-> part_id,
                           part_code |-> part_code,
                           primary_zone |->
                               IF qdrant_data # NoDict
                               THEN Get(qdrant_data, "primary_zone", None)
                               ELSE None]
         IN  [Silent EXCEPT
                 !.printed = [outcome |-> "no_history",
                              summary |-> generate_no_pattern_explanation(
                                              part_info, ollama)]]
    ELSE
    LET scan == ScanLocations(qdrant_data.all_locations, 1, table, down_at,
                              [available |-> <<>>, lookups |-> <<>>,
                               statements |-> <<>>, exc |-> ""])
        available_locs == SortAvailable(scan.available, 1, <<>>)
    IN
    IF scan.exc # ""
    THEN [Silent EXCEPT !.exc = scan.exc, !.lookups = scan.lookups]
    ELSE IF available_locs # <<>>
    THEN LET best == available_locs[1]
         IN  [Silent EXCEPT
                 !.lookups = scan.lookups,
                 !.printed = [outcome |-> "ok",
                              recommended |-> best,
                              alternatives |-> Slice(available_locs, 1, 4),
                              summary |-> generate_llm_explanation(
                                  best, part_code, client_name, ollama)]]
    ELSE LET zone == Get(qdrant_data, "primary_zone", <<"Unknown">>)
         IN  [Silent EXCEPT
                 !.lookups = scan.lookups,
                 !.printed = [outcome |-> "all_occupied",
                              summary |->
                                  Or(ollama_generate(ollama,
                                         <<"all occupied, advise", part_code,
                                           client_name, zone>>),
                                     <<"Please consult your supervisor",
                                       zone>>)]]

InitCli ==
    /\ points \in {<<>>} \cup {<<p>> : p \in QuietPayloads}
    /\ location \in LocationTables
    /\ audit_enabled = TRUE
    /\ result = NoDict
    /\ raised = ""
    /\ lookups = <<>>
    /\ prompts = <<>>
    /\ audit_calls = <<>>
    /\ audit_log = <<>>
    /\ trace = <<>>
    /\ part_id_in = 0
    /\ AgainIdle
    /\ ValidIdle
    /\ PhraseIdle
    /\ CliIdle
    /\ ConfirmIdle
    /\ RetryIdle
    /\ LaterIdle

\* One part id entered in the interactive loop.
CliRequest(part_id, fetch_ok, down_at, ollama) ==
    \E call \in {recommend_putaway(part_id, points, fetch_ok, location,
                                    down_at, ollama)} :
        /\ cli_printed' = call.printed
        /\ cli_raised' = call.exc
        /\ cli_fetch_failed' = (part_id \in DOMAIN PartTable /\ ~fetch_ok)
        /\ cli_lookup_failed' = (call.exc = "DatabaseError")
        /\ UNCHANGED <<rankVars, againVars, validVars, phraseVars,
                       confirmVars, retryVars, laterVars>>

NextCli ==
    \/ \E part_id \in PartIds, ollama \in OllamaOutcomes :
           CliRequest(part_id, TRUE, 0, ollama)
    \/ \E ollama \in OllamaOutcomes : CliRequest(1, FALSE, 0, ollama)
    \/ \E down_at \in 1..MaxDownAt : CliRequest(1, TRUE, down_at, "text")

SpecCli == InitCli /\ [][NextCli]_vars

(***************************************************************************)
(* The confirm form of the UI: the operator confirms the putaway of the    *)
(* recommended location or types another one.                              *)
(***************************************************************************)
LowerCase ==
    <<"a", "b", "c", "d", "e", "f", "g", "h", "i", "j", "k", "l", "m",
      "n", "o", "p", "q", "r", "s", "t", "u", "v", "w", "x", "y", "z">>

UpperCase ==
    <<"A", "B", "C", "D", "E", "F", "G", "H", "I", "J", "K", "L", "M",
      "N", "O", "P", "Q", "R", "S", "T", "U", "V", "W", "X", "Y", "Z">>

Whitespace == {" ", "\t"}

\* str.upper()
upper(s) ==
    [i \in 1..Len(s) |->
        IF \E k \in 1..Len(LowerCase) : LowerCase[k] = s[i]
        THEN UpperCase[CHOOSE k \in 1..Len(LowerCase) : LowerCase[k] = s[i]]
        ELSE s[i]]

\* str.lstrip(), str.rstrip(), str.strip()
RECURSIVE lstrip(_)
lstrip(s) ==
    IF s # <<>> /\ Head(s) \in Whitespace THEN lstrip(Tail(s)) ELSE s

RECURSIVE rstrip(_)
rstrip(s) ==
    IF s # <<>> /\ s[Len(s)] \in Whitespace
    THEN rstrip(SubSeq(s, 1, Len(s) - 1))
    ELSE s

strip(s) == rstrip(lstrip(s))

\* chosen, without the upper-casing.
Chosen_NoUpper(text) == strip(Or(text, <<>>))

\* chosen = (loc_input or "").strip().upper()
Chosen(text) == upper(strip(Or(text, <<>>)))

\* AuditLogger.log_override(**kw): nothing when the log is disabled.
log_override(enabled, kw) ==
    IF ~enabled THEN <<>>
    ELSE << [event_type |-> "override",
             user |-> "operator",
             part_id |-> kw.part_id,
             part_code |-> kw.part_code,
             recommended_location |-> kw.recommended_location,
             actual_location |-> kw.actual_location,
             reason |-> Or(kw.reason, <<"Not specified">>)] >>

\* What the operator may leave or type in the location field.
FormInputs ==
    {None, <<>>, <<" ">>, <<" ", "\t">>,
     TN52D, SG01J,
     <<"t", "n", "5", "2", "d">>,
     <<" ">> \o SG01J \o <<" ">>,
     <<"s", "g", "0", "1", "j", "\t">>,
     <<"Z", "Z", "9">>,
     <<" ", "z", "z", "9">>}

InitConfirm ==
    /\ points \in {<<p>> : p \in QuietPayloads}
    /\ location \in LocationTables
    /\ audit_enabled \in BOOLEAN
    /\ result = NoDict
    /\ raised = ""
    /\ lookups = <<>>
    /\ prompts = <<>>
    /\ audit_calls = <<>>
    /\ audit_log = <<>>
    /\ trace = <<>>
    /\ part_id_in = 0
    /\ AgainIdle
    /\ ValidIdle
    /\ PhraseIdle
    /\ CliIdle
    /\ ConfirmIdle
    /\ RetryIdle
    /\ LaterIdle

\* GET RECOMMENDATION: the page is drawn anew for the result.
Recommend(part_id, gemini) ==
    /\ Call(part_id, TRUE, gemini, 0, TRUE)
    /\ loc_input' = None
    /\ feedback' = ""
    /\ override_calls' = <<>>
    /\ override_log' = <<>>
    /\ UNCHANGED <<againVars, laterVars>>

\* CONFIRM PUTAWAY: the form is there for an ok result only.
ConfirmPutaway(text) ==
    /\ "status" \in DOMAIN result
    /\ result.status = "ok"
    /\ LET res == result
           rec == res.recommended
           chosen == Chosen(text)
           kw == [part_id |-> res.part_id,
                  part_code |-> res.part_code,
                  recommended_location |-> rec.code,
                  actual_location |-> chosen,
                  reason |-> <<"Manual override by user">>]
       IN  /\ loc_input' = text
           /\ IF ~Truthy(chosen)
              THEN /\ feedback' = "Please enter a location code."
                   /\ override_calls' = <<>>
                   /\ override_log' = <<>>
              ELSE IF chosen = rec.code
              THEN /\ feedback' = "confirmed (recommended location)"
                   /\ override_calls' = <<>>
                   /\ override_log' = <<>>
              ELSE /\ feedback' = "confirmed (override)"
                   /\ override_calls' = <<kw>>
                   /\ override_log' = log_override(audit_enabled, kw)
    /\ UNCHANGED <<rankVars, againVars, validVars, phraseVars, cliVars,
                   retryVars, laterVars>>

NextConfirm ==
    \/ \E part_id \in PartIds, gemini \in GeminiOutcomes :
           Recommend(part_id, gemini)
    \/ \E text \in FormInputs : ConfirmPutaway(text)

SpecConfirm == InitConfirm /\ [][NextConfirm]_vars

(***************************************************************************)
(* retry_on_failure: the wrapper's loop, one attempt of the wrapped        *)
(* function at a time.  The decorator of error_handler.py sleeps between   *)
(* attempts and raises last_exception after the loop; the decorator that   *)
(* local-deployment/app.py and warehouse_cli.py define for themselves does *)
(* not sleep, re-raises in the last attempt and returns None after the     *)
(* loop.  Waits are in seconds.                                            *)
(***************************************************************************)
MaxRetries == 4

backoff == 2

RetryVariants == {"error_handler", "local"}

Delays == {1, 2}

\* What the wrapped function returns, and what it raises.
AttemptValues == {"payload", "None"}
AttemptErrors == {"ConnectionError", "Timeout"}

\* The loop with one more round than max_retries.
InRange_Inclusive(index, n) == index <= n

\* for attempt in range(max_retries): index is a round of the loop.
InRange(index, n) == index < n

\* The wrapper sleeping after every failed attempt, the last included.
HasNextAttempt_Always(index, n) == index < n

\* if attempt < max_retries - 1: the wrapper sleeps and goes on.
HasNextAttempt(index, n) == index < n - 1

InitRetry ==
    /\ RankIdle
    /\ AgainIdle
    /\ ValidIdle
    /\ PhraseIdle
    /\ CliIdle
    /\ ConfirmIdle
    /\ LaterIdle
    /\ retry_variant \in RetryVariants
    /\ max_retries \in 0..MaxRetries
    /\ delay \in Delays
    /\ last_exception = "None"
    /\ attempt = 0
    /\ current_delay = delay
    /\ sleeps = <<>>
    /\ outcomes = <<>>
    /\ retry_state = "running"
    /\ retry_out = ""

retryOthers == <<rankVars, againVars, validVars, phraseVars, cliVars,
                 confirmVars, laterVars>>

\* A round of the loop in which the wrapped function returns: return
\* func(*args, **kwargs).
AttemptReturns(value) ==
    /\ retry_state = "running"
    /\ InRange(attempt, max_retries)
    /\ attempt' = attempt + 1
    /\ outcomes' = Append(outcomes, value)
    /\ retry_state' = "returned"
    /\ retry_out' = value
    /\ UNCHANGED <<retry_variant, max_retries, delay, last_exception,
                   current_delay, sleeps, retryOthers>>

\* A round of the loop in which the wrapped function raises.
AttemptRaises(e) ==
    /\ retry_state = "running"
    /\ InRange(attempt, max_retries)
    /\ attempt' = attempt + 1
    /\ outcomes' = Append(outcomes, e)
    /\ IF retry_variant = "error_handler"
       THEN /\ last_exception' = e
            /\ IF HasNextAttempt(attempt, max_retries)
               THEN /\ sleeps' = Append(sleeps, current_delay)
                    /\ current_delay' = current_delay * backoff
               ELSE UNCHANGED <<sleeps, current_delay>>
            /\ IF InRange(attempt + 1, max_retries)
               THEN /\ retry_state' = "running"
                    /\ retry_out' = ""
               ELSE \* raise last_exception
                    /\ retry_state' = "raised"
                    /\ retry_out' = e
       ELSE /\ UNCHANGED <<last_exception, sleeps, current_delay>>
            /\ IF attempt = max_retries - 1
               THEN \* raise
                    /\ retry_state' = "raised"
                    /\ retry_out' = e
               ELSE IF InRange(attempt + 1, max_retries)
               THEN /\ retry_state' = "running"
                    /\ retry_out' = ""
               ELSE \* return None
                    /\ retry_state' = "returned"
                    /\ retry_out' = "None"
    /\ UNCHANGED <<retry_variant, max_retries, delay, retryOthers>>

\* The loop has no round at all: raise last_exception with last_exception
\* None is a TypeError; the other decorator returns None.
NoAttempt ==
    /\ retry_state = "running"
    /\ attempt = 0
    /\ ~InRange(attempt, max_retries)
    /\ IF retry_variant = "error_handler"
       THEN retry_state' = "raised" /\ retry_out' = "TypeError"
       ELSE retry_state' = "returned" /\ retry_out' = "None"
    /\ UNCHANGED <<retry_variant, max_retries, delay, last_exception, attempt,
                   current_delay, sleeps, outcomes, retryOthers>>

NextRetry ==
    \/ \E value \in AttemptValues : AttemptReturns(value)
    \/ \E e \in AttemptErrors : AttemptRaises(e)
    \/ NoAttempt

SpecRetry == InitRetry /\ [][NextRetry]_vars

(***************************************************************************)
(* The page of app.py: the GET RECOMMENDATION button handler and the       *)
(* rendering of the stored result.  Streamlit runs the script again for    *)
(* every click, so the rendering belongs to the handler's step.            *)
(***************************************************************************)
DigitSeq == <<"0", "1", "2", "3", "4", "5", "6", "7", "8", "9">>

DigitValue(c) == CHOOSE v \in 0..9 : DigitSeq[v + 1] = c

\* The number a sequence of decimal digits writes.
RECURSIVE Decimal(_, _, _)
Decimal(digits, i, acc) ==
    IF i > Len(digits) THEN acc
    ELSE Decimal(digits, i + 1, acc * 10 + DigitValue(digits[i]))

\* int(s) of a str: surrounding whitespace is dropped; an optional sign is
\* followed by decimal digits, between which single underscores may stand;
\* anything else raises ValueError.
int(s) ==
    LET stripped == strip(s)
        signed == Len(stripped) >= 1 /\ stripped[1] \in {"+", "-"}
        body == IF signed THEN Tail(stripped) ELSE stripped
        wellformed ==
            /\ Len(body) >= 1
            /\ body[1] \in Digits
            /\ body[Len(body)] \in Digits
            /\ \A i \in 1..Len(body) : body[i] \in Digits \cup {"_"}
            /\ \A i \in 1..(Len(body) - 1) :
                   ~(body[i] = "_" /\ body[i + 1] = "_")
        IsDigit(c) == c \in Digits
        magnitude == Decimal(SelectSeq(body, IsDigit), 1, 0)
    IN  IF ~wellformed THEN [exc |-> "ValueError", value |-> 0]
        ELSE [exc |-> "",
              value |-> IF signed /\ stripped[1] = "-"
                        THEN 0 - magnitude ELSE magnitude]

\* The session with its part id stored before the call is made.
SessionAfter_Eager(state, pid, ret, exc) ==
    [k \in DOMAIN state \cup {"current_part_id"}
         \cup (IF exc = "" THEN {"result"} ELSE {}) |->
        IF k = "current_part_id" THEN pid
        ELSE IF k = "result" /\ exc = "" THEN ret
        ELSE state[k]]

\* st.session_state.result = get_recommendation(pid)
\* st.session_state.current_part_id = pid
\* An exception of the call leaves the try block before either assignment.
SessionAfter(state, pid, ret, exc) ==
    IF exc # "" THEN state
    ELSE [k \in DOMAIN state \cup {"result", "current_part_id"} |->
             IF k = "result" THEN ret
             ELSE IF k = "current_part_id" THEN pid
             ELSE state[k]]

\* if 'result' in st.session_state and st.session_state.result: res = ...
Rendered(state) ==
    IF "result" \in DOMAIN state /\ state["result"] # NoDict
    THEN state["result"] ELSE <<>>

\* What the operator may type in the part id field.
PartIdTexts ==
    { <<>>, <<"1">>, <<"2">>, <<" ", "1", " ">>, <<"+", "1">>,
      <<"1", "_", "1">>, <<"a", "b">>, <<"1", ".", "0">>, <<"1", " ", "2">>,
      <<"_", "1">> }

\* The histories of the page's part: at most one record each.
SessionPayloads == {p \in QuietPayloads : Len(p.all_locations) <= 1}

InitSession ==
    /\ points \in {<<>>} \cup {<<p>> : p \in SessionPayloads}
    /\ location \in LocationTables
    /\ audit_enabled = TRUE
    /\ result = NoDict
    /\ raised = ""
    /\ lookups = <<>>
    /\ prompts = <<>>
    /\ audit_calls = <<>>
    /\ audit_log = <<>>
    /\ trace = <<>>
    /\ part_id_in = 0
    /\ AgainIdle
    /\ ValidIdle
    /\ PhraseIdle
    /\ CliIdle
    /\ ConfirmIdle
    /\ RetryIdle
    /\ SessionIdle
    /\ ScriptIdle
    /\ PoolIdle
    /\ ThreadIdle

\* if st.button("GET RECOMMENDATION"): try: pid = int(part_id_str.strip())
\* ... except ValueError: st.error(...) except Exception as e: st.error(...)
GetRecommendationClick(text, fetch_ok, gemini, down_at, writable) ==
    \E pid \in {int(strip(text))} :
        /\ part_id_str' = text
        /\ IF pid.exc # ""
           THEN /\ shown_error' = "Part ID must be a valid number."
                /\ session_state' = session_state
                /\ UNCHANGED <<rankVars, validVars, phraseVars, cliVars,
                               retryVars>>
           ELSE /\ Call(pid.value, fetch_ok, gemini, down_at, writable)
                /\ shown_error' = IF raised' # "" THEN "Error" ELSE ""
                /\ session_state' =
                       SessionAfter(session_state, pid.value, result', raised')
        /\ displayed' = Rendered(session_state')
        /\ UNCHANGED <<againVars, confirmVars, scriptVars, poolVars, threadVars>>

NextSession ==
    \/ \E text \in PartIdTexts, gemini \in GeminiOutcomes :
           GetRecommendationClick(text, TRUE, gemini, 0, TRUE)
    \/ \E text \in PartIdTexts :
           GetRecommendationClick(text, FALSE, "text", 0, TRUE)
    \/ \E text \in PartIdTexts, down_at \in 1..MaxDownAt :
           GetRecommendationClick(text, TRUE, "text", down_at, TRUE)
    \/ \E text \in PartIdTexts, gemini \in GeminiOutcomes :
           GetRecommendationClick(text, TRUE, gemini, 0, FALSE)

SpecSession == InitSession /\ [][NextSession]_vars

(***************************************************************************)
(* putaway_recommendation_system.py: recommend_putaway(part_id), which     *)
(* tries the locations of the part's current inventory before its          *)
(* history.  What it prints is kept as the lines that name a strategy, a   *)
(* recommendation or a fallback; the REASON, BENEFITS and SUGGESTION texts *)
(* under them are left out.                                                *)
(***************************************************************************)
ScriptLine(tag, arg) == [tag |-> tag, arg |-> arg]

ConsultSupervisor == <<"Consult supervisor">>

\* check_location_availability(location_code, requesting_client_id, cursor)
script_check_location_availability(location_code, requesting_client_id, table) ==
    IF location_code \notin DOMAIN table
    THEN [status |-> "UNKNOWN", priority |-> 4]
    ELSE IF table[location_code] = NULL
    THEN [status |-> "FREE", priority |-> 1]
    ELSE IF table[location_code] = requesting_client_id
    THEN [status |-> "YOUR_LOCATION", priority |-> 1]
    ELSE [status |-> "OCCUPIED", priority |-> 3]

\* The test that takes only a free location for available.
InFreeOrYours_FreeOnly(status) == status = "FREE"

\* status in ['FREE', 'YOUR_LOCATION']
InFreeOrYours(status) == status \in {"FREE", "YOUR_LOCATION"}

\* for alt_loc in valid_inv_locs[1:]: ... break.  found is the place of the
\* first alternative that is available (0: none).
RECURSIVE NextAvailable(_, _, _, _, _)
NextAvailable(valid_inv_locs, i, client_id, table, looked) ==
    IF i > Len(valid_inv_locs) THEN [found |-> 0, lookups |-> looked]
    ELSE LET code == valid_inv_locs[i].location_code
             checked == script_check_location_availability(code, client_id, table)
         IN  IF InFreeOrYours(checked.status)
             THEN [found |-> i, lookups |-> Append(looked, code)]
             ELSE NextAvailable(valid_inv_locs, i + 1, client_id, table,
                                Append(looked, code))

\* if inv_locs:
InventoryListed(inv_locs) == inv_locs # <<>>

\* STRATEGY 1, the block under `if has_inventory:`.  has_inventory is the
\* variable as the block leaves it.
Consolidation(inv, client_id, table) ==
    LET head == <<ScriptLine("STRATEGY", <<"CONSOLIDATION">>)>>
        inv_locs == Get(inv, "locations", <<>>)
        Valid(loc) == is_valid_location(loc.location_code)
        valid_inv_locs == SelectSeq(inv_locs, Valid)
    IN
    IF ~InventoryListed(inv_locs)
    THEN [lines |-> head, lookups |-> <<>>, has_inventory |-> TRUE]
    ELSE IF valid_inv_locs = <<>>
    THEN [lines |-> Append(head,
                       ScriptLine("All current inventory locations are invalid",
                                  <<>>)),
          lookups |-> <<>>, has_inventory |-> FALSE]
    ELSE
    LET primary_loc == valid_inv_locs[1]
        first == script_check_location_availability(
                     primary_loc.location_code, client_id, table)
        alt == NextAvailable(valid_inv_locs, 2, client_id, table,
                             <<primary_loc.location_code>>)
    IN  IF InFreeOrYours(first.status)
        THEN [lines |-> Append(head, ScriptLine("RECOMMENDED LOCATION",
                                                primary_loc.location_code)),
              lookups |-> <<primary_loc.location_code>>,
              has_inventory |-> TRUE]
        ELSE IF alt.found # 0
        THEN [lines |-> Append(head,
                            ScriptLine("RECOMMENDED LOCATION",
                                       valid_inv_locs[alt.found].location_code)),
              lookups |-> alt.lookups, has_inventory |-> TRUE]
        ELSE [lines |-> Append(head,
                            ScriptLine("All consolidation locations are occupied",
                                       <<>>)),
              lookups |-> alt.lookups, has_inventory |-> FALSE]

\* for loc in locations: ... available_locs.append(...)
RECURSIVE ScanHistory(_, _, _, _, _)
ScanHistory(locations, i, client_id, table, acc) ==
    IF i > Len(locations) THEN acc
    ELSE LET loc == locations[i]
             loc_code == Get(loc, "code", None)
         IN  IF ~is_valid_location(loc_code)
             THEN ScanHistory(locations, i + 1, client_id, table, acc)
             ELSE LET checked == script_check_location_availability(
                                     loc_code, client_id, table)
                      entry == [code |-> loc_code,
                                count |-> Get(loc, "count", 0),
                                percentage |-> Get(loc, "percentage", 0),
                                status |-> checked.status,
                                priority |-> checked.priority]
                  IN  ScanHistory(locations, i + 1, client_id, table,
                          [available |-> IF InFreeOrYours(checked.status)
                                         THEN Append(acc.available, entry)
                                         ELSE acc.available,
                           lookups |-> Append(acc.lookups, loc_code)])

\* The lines of the alternatives: available_locs[1:4].
AlternativeLines(alts) ==
    [i \in 1..Len(alts) |-> ScriptLine("ALTERNATIVE", alts[i].code)]

\* STRATEGY 2, the block under `if not has_inventory:`.  returned: the
\* block left the function by its return.
Historical(data, client_id, table) ==
    LET head == <<ScriptLine("STRATEGY", <<"HISTORICAL PATTERNS">>)>>
        locations == Get(data, "locations", <<>>)
        scan == ScanHistory(locations, 1, client_id, table,
                            [available |-> <<>>, lookups |-> <<>>])
        available_locs == SortAvailable(scan.available, 1, <<>>)
    IN
    IF locations = <<>>
    THEN [lines |-> Append(head, ScriptLine("RECOMMENDED LOCATION",
                                            ConsultSupervisor)),
          lookups |-> <<>>, returned |-> TRUE]
    ELSE IF available_locs # <<>>
    THEN [lines |-> Append(head, ScriptLine("RECOMMENDED LOCATION",
                                            available_locs[1].code))
                        \o AlternativeLines(Slice(available_locs, 1, 4)),
          lookups |-> scan.lookups, returned |-> FALSE]
    ELSE [lines |-> Append(head, ScriptLine("RECOMMENDED LOCATION",
                                            ConsultSupervisor)),
          lookups |-> scan.lookups, returned |-> FALSE]

\* The branch for a part without a knowledge-base file.
NotInKnowledgeBase(in_db, putaways) ==
    <<ScriptLine("NOT FOUND IN KNOWLEDGE BASE", <<>>)>>
        \o (IF in_db
            THEN << ScriptLine("REASON",
                               IF putaways = 0
                               THEN <<"never received">>
                               ELSE <<"not included in knowledge base">>),
                    ScriptLine("RECOMMENDATION: CONSULT SUPERVISOR", <<>>) >>
            ELSE <<ScriptLine("does not exist in the database", <<>>)>>)

\* recommend_putaway(part_id): data is the content of the part's file
\* (<<>>: no file), in_db and putaways what the database holds of the part.
script_recommend_putaway(data, in_db, putaways, table) ==
    IF data = NoDict
    THEN [printed |-> NotInKnowledgeBase(in_db, putaways),
          lookups |-> <<>>, closed |-> TRUE]
    ELSE
    LET client_id == Get(data, "client_id", NULL)
        inv == Get(data, "current_inventory", <<>>)
        has_inventory == Get(inv, "total_locations", 0) > 0
        first == IF has_inventory
                 THEN Consolidation(inv, client_id, table)
                 ELSE [lines |-> <<>>, lookups |-> <<>>,
                       has_inventory |-> FALSE]
        second == IF ~first.has_inventory
                  THEN Historical(data, client_id, table)
                  ELSE [lines |-> <<>>, lookups |-> <<>>, returned |-> FALSE]
    IN  [printed |-> first.lines \o second.lines,
         lookups |-> first.lookups \o second.lookups,
         closed |-> ~second.returned]

MaxInv == 2
MaxHist == 2

\* The locations an inventory may list.
InventoryLocs ==
    {[location_code |-> c] : c \in {TN52D, SG01J, FLOOR1, SG01AA}}

\* current_inventory: the summary with its count and its list, with the
\* count alone, or with a count of 0.
Inventories ==
    {[total_locations |-> n, locations |-> ls] :
        n \in {0, 2}, ls \in ListsOf(InventoryLocs, MaxInv)}
    \cup {[total_locations |-> 2]}

PartFiles ==
    {[part_code |-> <<"P", "1">>, client_id |-> 7, current_inventory |-> inv,
      locations |-> ls, total_putaways |-> 53] :
        inv \in Inventories, ls \in ListsOf(CoreRecords, MaxHist)}
    \cup {[part_code |-> <<"P", "1">>, client_id |-> 7,
           locations |-> ls, total_putaways |-> 53] :
             ls \in ListsOf(CoreRecords, MaxHist)}

\* A shelf location has no row, is free, or holds stock of the part's
\* client (7) or of another (8); the floor location and the subdivided
\* location are free.
ScriptTables ==
    {t \in UNION {[D \cup {FLOOR1, SG01AA} -> {NULL, 7, 8}] :
                      D \in SUBSET {TN52D, SG01J}} :
        t[FLOOR1] = NULL /\ t[SG01AA] = NULL}

InitScript ==
    /\ points = <<>>
    /\ location \in ScriptTables
    /\ audit_enabled = TRUE
    /\ result = NoDict
    /\ raised = ""
    /\ lookups = <<>>
    /\ prompts = <<>>
    /\ audit_calls = <<>>
    /\ audit_log = <<>>
    /\ trace = <<>>
    /\ part_id_in = 0
    /\ AgainIdle
    /\ ValidIdle
    /\ PhraseIdle
    /\ CliIdle
    /\ ConfirmIdle
    /\ RetryIdle
    /\ SessionIdle
    /\ part_data \in {NoDict} \cup PartFiles
    /\ script_printed = <<>>
    /\ script_lookups = <<>>
    /\ script_closed = FALSE
    /\ PoolIdle
    /\ ThreadIdle

scriptOthers == <<rankVars, againVars, validVars, phraseVars, cliVars,
                  confirmVars, retryVars, sessionVars, poolVars,
                  threadVars>>

\* One part id entered at the prompt.
RunScript(in_db, putaways) ==
    \E call \in {script_recommend_putaway(part_data, in_db, putaways, location)} :
        /\ script_printed' = call.printed
        /\ script_lookups' = call.lookups
        /\ script_closed' = call.closed
        /\ UNCHANGED <<part_data, scriptOthers>>

NextScript == \E in_db \in BOOLEAN, putaways \in {0, 3} : RunScript(in_db, putaways)

SpecScript == InitScript /\ [][NextScript]_vars

(***************************************************************************)
(* The connection pool of app.py.  get_recommendation takes a connection   *)
(* from the pool before its try block, opens a cursor in it, and closes    *)
(* both in its finally block; closing a pooled connection returns it to    *)
(* the pool.                                                               *)
(***************************************************************************)
pool_size == 5

\* get_db_connection(): pool.get_connection() raises when the pool holds no
\* connection; a connection that is not connected is reconnected, and a
\* reconnect that raises leaves the function by its except clause.  taken:
\* the connections that left the pool.
get_db_connection(free, connected, reconnect_ok) ==
    IF free = 0
    THEN [exc |-> "DatabaseConnectionError", taken |-> 0,
          events |-> <<"get_connection">>]
    ELSE IF connected
    THEN [exc |-> "", taken |-> 1, events |-> <<"get_connection">>]
    ELSE IF reconnect_ok
    THEN [exc |-> "", taken |-> 1,
          events |-> <<"get_connection", "reconnect">>]
    ELSE [exc |-> "DatabaseConnectionError", taken |-> 1,
          events |-> <<"get_connection", "reconnect">>]

\* finally: if cursor: cursor.close()   if db: db.close()
Finally(cursor, db) ==
    (IF cursor THEN <<"cursor.close">> ELSE <<>>)
        \o (IF db THEN <<"db.close">> ELSE <<>>)

\* How often an event stands in a trace.
Times(events, e) == Cardinality({i \in 1..Len(events) : events[i] = e})

InitPool ==
    /\ points \in {<<>>} \cup {<<p>> : p \in SessionPayloads}
    /\ location \in LocationTables
    /\ audit_enabled = TRUE
    /\ result = NoDict
    /\ raised = ""
    /\ lookups = <<>>
    /\ prompts = <<>>
    /\ audit_calls = <<>>
    /\ audit_log = <<>>
    /\ trace = <<>>
    /\ part_id_in = 0
    /\ AgainIdle
    /\ ValidIdle
    /\ PhraseIdle
    /\ CliIdle
    /\ ConfirmIdle
    /\ RetryIdle
    /\ SessionIdle
    /\ ScriptIdle
    /\ pool_free = pool_size
    /\ open_cursors = 0
    /\ pool_trace = <<>>
    /\ ThreadIdle

\* A call that raises before it asks any collaborator.
RaisesEarly(part_id, exc) ==
    /\ result' = NoDict
    /\ raised' = exc
    /\ lookups' = <<>>
    /\ prompts' = <<>>
    /\ audit_calls' = <<>>
    /\ audit_log' = <<>>
    /\ trace' = <<>>
    /\ part_id_in' = part_id
    /\ UNCHANGED <<points, location, audit_enabled, validVars, phraseVars,
                   cliVars, retryVars>>

\* get_recommendation(part_id) with its connection and its cursor.
PoolCall(part_id, fetch_ok, gemini, down_at, writable, connected, reconnect_ok, cursor_ok) ==
    \E got \in {get_db_connection(pool_free, connected, reconnect_ok)} :
        /\ IF got.exc # ""
           THEN /\ RaisesEarly(part_id, got.exc)
                /\ pool_trace' = got.events
           ELSE IF ~cursor_ok
           THEN /\ RaisesEarly(part_id, "DatabaseError")
                /\ pool_trace' = got.events
                                     \o Finally(FALSE, TRUE)
           ELSE /\ Call(part_id, fetch_ok, gemini, down_at, writable)
                /\ pool_trace' = got.events \o <<"cursor">>
                                     \o Finally(TRUE, TRUE)
        /\ pool_free' = pool_free - got.taken + Times(pool_trace', "db.close")
        /\ open_cursors' = open_cursors + Times(pool_trace', "cursor")
                               - Times(pool_trace', "cursor.close")
        /\ UNCHANGED <<againVars, confirmVars, sessionVars, scriptVars, threadVars>>

NextPool ==
    \/ \E part_id \in PartIds, gemini \in GeminiOutcomes :
           PoolCall(part_id, TRUE, gemini, 0, TRUE, TRUE, TRUE, TRUE)
    \/ PoolCall(1, FALSE, "text", 0, TRUE, TRUE, TRUE, TRUE)
    \/ \E down_at \in 1..MaxDownAt :
           PoolCall(1, TRUE, "text", down_at, TRUE, TRUE, TRUE, TRUE)
    \/ PoolCall(1, TRUE, "text", 0, FALSE, TRUE, TRUE, TRUE)
    \/ \E reconnect_ok \in BOOLEAN :
           PoolCall(1, TRUE, "text", 0, TRUE, FALSE, reconnect_ok, TRUE)
    \/ PoolCall(1, TRUE, "text", 0, TRUE, TRUE, TRUE, FALSE)

SpecPool == InitPool /\ [][NextPool]_vars

(***************************************************************************)
(* Two get_recommendation calls in flight at once.  A call runs statement  *)
(* by statement: cursor.execute sends a statement on the call's            *)
(* connection, cursor.fetchone reads the row the connection holds.  In     *)
(* src/app.py each call takes a connection of its own from the pool; in    *)
(* src/local-deployment/app.py get_db is a cached resource, and every call *)
(* works on the one connection it returns.                                 *)
(***************************************************************************)
MaxThreadLocs == 2

ThreadIds == {1, 2}

Deployments == {"cloud", "local"}

\* db = get_db_connection() (a connection per call) or db = get_db() (the
\* cached connection, 0).
ConnectionOf(dep, t) == IF dep = "cloud" THEN t ELSE 0

Connections(dep) == {ConnectionOf(dep, t) : t \in ThreadIds}

\* A connection without a result set to read.
NoRow == [owner |-> 0, table |-> "none", value |-> NULL]

\* The first row of the result set of a statement, over the snapshot.
Answer(stmt, table) ==
    IF stmt.table = "part"
    THEN IF SelectPart(stmt.key) = NoDict
         THEN [table |-> "none", value |-> NULL]
         ELSE [table |-> "part",
               value |-> [id |-> stmt.key] @@ SelectPart(stmt.key)]
    ELSE IF stmt.table = "client"
    THEN IF stmt.key \in DOMAIN ClientTable
         THEN [table |-> "client", value |-> ClientTable[stmt.key]]
         ELSE [table |-> "none", value |-> NULL]
    ELSE IF stmt.key \in DOMAIN table
         THEN [table |-> "location", value |-> table[stmt.key]]
         ELSE [table |-> "none", value |-> NULL]

\* row[0] is None
FirstIsNone(r) == r.table = "location" /\ r.value = NULL

\* client_row[0], whatever row was read: a name, or None, or a number.
FirstAsName(r) ==
    IF r.table = "client" THEN r.value
    ELSE IF r.table = "part" THEN <<"int", r.value.id>>
    ELSE IF r.value = NULL THEN None
    ELSE <<"int", r.value>>

\* The call before its first statement.
NewThread ==
    [pc |-> "idle", part_id |-> 0, row |-> NoDict, client_name |-> <<>>,
     i |-> 0, found |-> <<>>, looked |-> <<>>, ret |-> NoDict, exc |-> ""]

\* The index of the next record of the loop whose code is looked up.
RECURSIVE NextLookup(_, _)
NextLookup(locations, i) ==
    IF i > Len(locations) THEN i
    ELSE IF is_valid_location(Get(locations[i], "code", None)) THEN i
    ELSE NextLookup(locations, i + 1)

\* The local deployment asks the text generator also for a part without
\* history: ai_text = call_ollama(...) or f"No historical putaway data ..."
LocalNoHistoryResult(part_info, part_code, qdrant_data, ollama) ==
    LET plain == NoHistoryResult(part_info, qdrant_data)
        zone == IF qdrant_data # NoDict
                THEN Get(qdrant_data, "primary_zone", None) ELSE None
        user_prompt == <<"no history, advise", part_code, ZoneText(zone)>>
    IN  [plain EXCEPT
            !.ai_summary = Or(call_gemini(ollama, user_prompt).text, @)]

\* get_recommendation of src/local-deployment/app.py, run alone.
local_get_recommendation(part_id, results, table, ollama, audit_on) ==
    LET call == get_recommendation(part_id, results, TRUE, table, ollama,
                                   audit_on, 0, TRUE)
    IN  IF SelectPart(part_id) # NoDict /\ NoHistory(get_part_from_qdrant(results))
        THEN LET row == SelectPart(part_id)
                 part_info == PartInfo(part_id, row.code, row.description,
                                       call.ret.client_name, row.clientId)
             IN  [call EXCEPT
                     !.ret = LocalNoHistoryResult(part_info, row.code,
                                 get_part_from_qdrant(results), ollama)]
        ELSE call

\* The text generator answers every call.
ThreadGemini == "text"

ThreadPayloads ==
    {[all_locations |-> ls, total_putaways |-> 53, primary_zone |-> <<"T">>] :
        ls \in ListsOf(CoreRecords, MaxThreadLocs)
               \cup {<<r>> : r \in UsageRecords}}

InitThreads ==
    /\ points \in {<<>>} \cup {<<p>> : p \in ThreadPayloads}
    /\ location \in LocationTables
    /\ audit_enabled = TRUE
    /\ result = NoDict
    /\ raised = ""
    /\ lookups = <<>>
    /\ prompts = <<>>
    /\ audit_calls = <<>>
    /\ audit_log = <<>>
    /\ trace = <<>>
    /\ part_id_in = 0
    /\ AgainIdle
    /\ ValidIdle
    /\ PhraseIdle
    /\ CliIdle
    /\ ConfirmIdle
    /\ RetryIdle
    /\ SessionIdle
    /\ ScriptIdle
    /\ PoolIdle
    /\ deployment \in Deployments
    /\ threads = [t \in ThreadIds |-> NewThread]
    /\ pending = [c \in Connections(deployment) |-> NoRow]

threadOthers ==
    <<points, location, audit_enabled, result, raised, lookups, prompts,
      audit_calls, trace, part_id_in, againVars, validVars, phraseVars,
      cliVars, confirmVars, retryVars, sessionVars, scriptVars, poolVars,
      deployment>>

\* def get_recommendation(part_id): ... db = get_db_connection() / get_db();
\* cursor = db.cursor()
Begin(t, part_id) ==
    /\ threads[t].pc = "idle"
    /\ threads' = [threads EXCEPT ![t].pc = "part", ![t].part_id = part_id]
    /\ UNCHANGED <<threadOthers, audit_log, pending>>

\* The statement the call executes next.
Statement(th, locations) ==
    IF th.pc = "part" THEN [table |-> "part", key |-> th.part_id]
    ELSE IF th.pc = "client" THEN [table |-> "client", key |-> th.row.clientId]
    ELSE [table |-> "location",
          key |-> Get(locations[NextLookup(locations, th.i)], "code", None)]

\* cursor.execute(...).  On a connection whose result set another call has
\* not read yet, the statement is refused (InternalError: Unread result
\* found) or its result set takes the place of the unread one.
CursorExecute(t) ==
    LET th == threads[t]
        c == ConnectionOf(deployment, t)
        locations == IF points = <<>> THEN <<>>
                     ELSE Get(points[1], "all_locations", <<>>)
        at == NextLookup(locations, th.i)
    IN  /\ \/ th.pc \in {"part", "client"}
           \/ th.pc = "scan" /\ at <= Len(locations)
        /\ \E stmt \in {Statement(th, locations)} :
           \/ /\ pending' = [pending EXCEPT
                                ![c] = [owner |-> t] @@ Answer(stmt, location)]
              /\ threads' =
                   IF th.pc = "scan"
                   THEN [threads EXCEPT ![t].pc = "location_fetch",
                                        ![t].i = at,
                                        ![t].looked = Append(@, stmt.key)]
                   ELSE [threads EXCEPT
                            ![t].pc = IF th.pc = "part" THEN "part_fetch"
                                      ELSE "client_fetch"]
           \/ /\ pending[c].owner \notin {0, t}
              /\ threads' = [threads EXCEPT ![t].pc = "done",
                                            ![t].exc = "InternalError"]
              /\ UNCHANGED pending
        /\ UNCHANGED <<threadOthers, audit_log>>

\* row = cursor.fetchone(); if not row: return {"error": ...};
\* _, part_code, description, client_id = row
FetchPart(t) ==
    LET th == threads[t]
        c == ConnectionOf(deployment, t)
        row == pending[c]
    IN  /\ th.pc = "part_fetch"
        /\ pending' = [pending EXCEPT ![c] = NoRow]
        /\ threads' =
             IF row.table = "none"
             THEN [threads EXCEPT
                      ![t].pc = "done",
                      ![t].ret = [error |-> <<"Part not found in database",
                                              th.part_id>>]]
             ELSE IF row.table # "part"
             THEN [threads EXCEPT ![t].pc = "done", ![t].exc = "ValueError"]
             ELSE [threads EXCEPT
                      ![t].pc = "client",
                      ![t].row = [code |-> row.value.code,
                                  description |-> row.value.description,
                                  clientId |-> row.value.clientId]]
        /\ UNCHANGED <<threadOthers, audit_log>>

\* client_row = cursor.fetchone(); client_name = ...; part_info = {...};
\* qdrant_data = get_part_from_qdrant(...); the return for a part without
\* history.
FetchClient(t) ==
    LET th == threads[t]
        c == ConnectionOf(deployment, t)
        client_row == pending[c]
        client_name == IF client_row.table = "none"
                       THEN <<"Client", th.row.clientId>>
                       ELSE FirstAsName(client_row)
        part_info == PartInfo(th.part_id, th.row.code, th.row.description,
                              client_name, th.row.clientId)
        qdrant_data == get_part_from_qdrant(points)
    IN  /\ th.pc = "client_fetch"
        /\ pending' = [pending EXCEPT ![c] = NoRow]
        /\ threads' =
             IF NoHistory(qdrant_data)
             THEN [threads EXCEPT
                      ![t].pc = "done",
                      ![t].client_name = client_name,
                      ![t].ret = IF deployment = "cloud"
                                 THEN NoHistoryResult(part_info, qdrant_data)
                                 ELSE LocalNoHistoryResult(part_info,
                                          th.row.code, qdrant_data,
                                          ThreadGemini)]
             ELSE [threads EXCEPT ![t].pc = "scan",
                                  ![t].client_name = client_name,
                                  ![t].i = 1]
        /\ UNCHANGED <<threadOthers, audit_log>>

\* check_location_availability: result = cursor.fetchone(); ... and
\* available.append(...) for a location found FREE.
FetchLocation(t) ==
    LET th == threads[t]
        c == ConnectionOf(deployment, t)
        fetched == pending[c]
        loc == points[1].all_locations[th.i]
        status == IF fetched.table = "none" THEN "UNKNOWN"
                  ELSE IF FirstIsNone(fetched) THEN "FREE" ELSE "OCCUPIED"
    IN  /\ th.pc = "location_fetch"
        /\ pending' = [pending EXCEPT ![c] = NoRow]
        /\ threads' =
             [threads EXCEPT
                 ![t].pc = "scan",
                 ![t].i = th.i + 1,
                 ![t].found = IF status = "FREE"
                              THEN Append(@, [code |-> Get(loc, "code", None),
                                               count |-> Get(loc, "count", 0),
                                               percentage |->
                                                   Get(loc, "percentage", 0)])
                              ELSE @]
        /\ UNCHANGED <<threadOthers, audit_log>>

\* After the loop: available.sort(...) to the return; the audit event goes
\* to the log all calls write.
Finish(t) ==
    LET th == threads[t]
        qdrant_data == get_part_from_qdrant(points)
        locations == qdrant_data.all_locations
        part_info == PartInfo(th.part_id, th.row.code, th.row.description,
                              th.client_name, th.row.clientId)
    IN  /\ th.pc = "scan"
        /\ NextLookup(locations, th.i) > Len(locations)
        /\ \E call \in {Conclude(th.row.code, th.row.description, part_info,
                                 qdrant_data, Blank, th.found, ThreadGemini,
                                 audit_enabled, TRUE)} :
              /\ threads' = [threads EXCEPT ![t].pc = "done",
                                            ![t].ret = call.ret,
                                            ![t].exc = call.exc]
              /\ audit_log' = audit_log \o call.events
        /\ UNCHANGED <<threadOthers, pending>>

NextThreads ==
    \/ \E t \in ThreadIds, part_id \in PartIds : Begin(t, part_id)
    \/ \E t \in ThreadIds : CursorExecute(t)
    \/ \E t \in ThreadIds : FetchPart(t)
    \/ \E t \in ThreadIds : FetchClient(t)
    \/ \E t \in ThreadIds : FetchLocation(t)
    \/ \E t \in ThreadIds : Finish(t)

SpecThreads == InitThreads /\ [][NextThreads]_vars

(***************************************************************************)
(* What the statements below speak of, read off the inputs alone.          *)
(***************************************************************************)
HasPayload == points # <<>>

Payload == points[1]

HistoryLocs ==
    IF HasPayload THEN Get(Payload, "all_locations", <<>>) ELSE <<>>

HasZone == HasPayload /\ "primary_zone" \in DOMAIN Payload

\* The last call returned an outcome for a part of the part table.
Ranked == "status" \in DOMAIN result

Range(s) == {s[i] : i \in 1..Len(s)}

Min(a, b) == IF a < b THEN a ELSE b

\* A code the specification excludes: empty or absent, a reserved prefix,
\* or two equal letters at the end.
Reserved(c) ==
    \E p \in {FLOOR, REC, ORD} :
        Len(c) >= Len(p) /\ \A i \in 1..Len(p) : c[i] = p[i]

DoubleLetter(c) ==
    Len(c) >= 2 /\ c[Len(c)] \in Letters /\ c[Len(c) - 1] = c[Len(c)]

Rejected(c) == c = None \/ c = <<>> \/ Reserved(c) \/ DoubleLetter(c)

\* The occupancy of a code in the location table.
Occupancy(c) ==
    IF c \notin DOMAIN location THEN "UNKNOWN"
    ELSE IF location[c] = NULL THEN "FREE"
    ELSE "OCCUPIED"

CodeOf(loc) == Get(loc, "code", None)

Usable(loc) == ~Rejected(CodeOf(loc)) /\ Occupancy(CodeOf(loc)) = "FREE"

\* The usable records of the history, in history order.
UsableLocs == SelectSeq(HistoryLocs, Usable)

OfferKeys == {"recommended", "alternatives", "all_available"}

\* Every location a result offers.
Offered ==
    IF OfferKeys \subseteq DOMAIN result
    THEN {result.recommended} \cup Range(result.alternatives)
             \cup Range(result.all_available)
    ELSE {}

\* C1: a history with at least one record that is valid and FREE gets
\* status ok and a recommended location.
C1_PrimaryWhenUsable ==
    (Ranked /\ UsableLocs # <<>>)
        => /\ result.status = "ok"
           /\ "recommended" \in DOMAIN result
           /\ Truthy(result.recommended.code)

C1_Witness ==
    /\ Ranked
    /\ UsableLocs # <<>>
    /\ Len(UsableLocs) < Len(HistoryLocs)
    /\ result.status = "ok"

C3_DescendingCounts ==
    (Ranked /\ result.status = "ok")
        => LET alts == result.alternatives
           IN  /\ \A i \in 1..Len(alts) : result.recommended.count >= alts[i].count
               /\ \A i \in 1..(Len(alts) - 1) : alts[i].count >= alts[i + 1].count

C3_Witness ==
    /\ Ranked
    /\ result.status = "ok"
    /\ Len(result.alternatives) >= 2
    /\ result.recommended.count > result.alternatives[Len(result.alternatives)].count
    /\ HistoryLocs[1].count < result.recommended.count

\* The records of s whose count is c, in the order of s.
SameCount(s, c) == LET Test(x) == x.count = c IN SelectSeq(s, Test)

\* C4: the ranking is stable: the ranked records of any one count stand in
\* the order the history has them, and the recommended location is the
\* first usable record of the highest count.
C4_StableOrder ==
    (Ranked /\ result.status = "ok")
        => /\ \A c \in {x.count : x \in Range(UsableLocs)} :
                  SameCount(result.all_available, c) = SameCount(UsableLocs, c)
           /\ \E i \in 1..Len(UsableLocs) :
                  /\ UsableLocs[i] = result.recommended
                  /\ \A j \in 1..Len(UsableLocs) :
                         \/ UsableLocs[j].count < UsableLocs[i].count
                         \/ UsableLocs[j].count = UsableLocs[i].count /\ j >= i

C4_Witness ==
    /\ Ranked
    /\ result.status = "ok"
    /\ Len(result.alternatives) >= 1
    /\ result.alternatives[1].count = result.recommended.count
    /\ result.alternatives[1] # result.recommended

C8_NoHistoryOutcome ==
    (Ranked /\ HistoryLocs = <<>>)
        => /\ result.status = "no_history"
           /\ OfferKeys \cap DOMAIN result = {}
           /\ result.ai_summary =
                  <<"no historical putaway data",
                    IF HasZone /\ Payload.primary_zone \notin {None, <<>>}
                    THEN <<"Zone ">> \o Payload.primary_zone
                    ELSE <<"any available zone">> >>
           /\ lookups = <<>>
           /\ audit_log = <<>>

C8_Witness ==
    /\ Ranked
    /\ HasZone
    /\ HistoryLocs = <<>>
    /\ result.status = "no_history"
    /\ result.ai_summary[2] = <<"Zone ", "T">>

\* C9: a history with records of which none is usable gets the
\* all_occupied outcome, with nothing offered and the zone of the history.
C9_AllOccupiedOutcome ==
    (Ranked /\ HistoryLocs # <<>> /\ UsableLocs = <<>>)
        => /\ result.status = "all_occupied"
           /\ OfferKeys \cap DOMAIN result = {}
           /\ "zone" \in DOMAIN result
           /\ HasZone => result.zone = Payload.primary_zone

C9_Witness ==
    /\ Ranked
    /\ HasZone
    /\ Len(HistoryLocs) = 1
    /\ CodeOf(HistoryLocs[1]) = FLOOR1
    /\ result.status = "all_occupied"
    /\ result.zone = <<"T">>

ShelfCodes == {TN52D, SG01J}

\* Two location tables with the same free codes.
SameFree(t1, t2) ==
    \A c \in ShelfCodes :
        (c \in DOMAIN t1 /\ t1[c] = NULL) <=> (c \in DOMAIN t2 /\ t2[c] = NULL)

\* The status and the locations of a result.
Ranking(r) ==
    <<r.status, Get(r, "recommended", <<>>), Get(r, "alternatives", <<>>),
      Get(r, "all_available", <<>>)>>

\* C10: a code without a row counts as an occupied one: giving any codes
\* without a row an occupied row, or the reverse, changes neither the
\* status nor the locations of the result.
C10_UnknownAsOccupied ==
    Ranked
        => \A t \in LocationTables :
               SameFree(t, location)
                   => Ranking(get_recommendation(result.part_id, points, TRUE, t,
                                  "text", audit_enabled, 0, TRUE).ret)
                          = Ranking(result)

C10_Witness ==
    /\ Ranked
    /\ result.status = "ok"
    /\ \E i \in 1..Len(HistoryLocs) :
           /\ ~Rejected(CodeOf(HistoryLocs[i]))
           /\ Occupancy(CodeOf(HistoryLocs[i])) = "UNKNOWN"
           /\ HistoryLocs[i].count > result.recommended.count

\* C5: is_valid_location rejects the empty or absent code, every code that
\* starts with FLOOR, REC or ORD and every code whose last two characters
\* are the same letter, and accepts every other code.
C5_RejectsExactly ==
    (code_valid # "")
        => (code_valid = "invalid" <=> Rejected(code_in))

C5_Witness ==
    /\ code_valid = "invalid"
    /\ code_in # None
    /\ Len(code_in) >= 2
    /\ ~Reserved(code_in)
    /\ code_in[Len(code_in)] = "A"

\* The strength class a phrase stands for.
StrengthOf(emphasis) ==
    CASE emphasis = "most preferred location" -> "STRONG"
      [] emphasis = "frequently used location" -> "MEDIUM"
      [] emphasis = "historically used location" -> "MEDIUM"
      [] emphasis = "available location from historical patterns" -> "WEAK"
      [] OTHER -> "NONE"

\* C6: the phrase is decided by percentage and count alone, whatever the
\* code: the STRONG phrase from 50 percent on, one MEDIUM phrase from 20
\* percent up to 50, the other MEDIUM phrase below 20 percent with a count
\* of 5 or more, and the WEAK phrase otherwise.
C6_StrengthClasses ==
    (phrase # NoPhrase)
        => LET pct == best_in.percentage
               count == best_in.count
               viaPercentage == Pct(20, 0) <= pct /\ pct < Pct(50, 0)
               viaCount == pct < Pct(20, 0) /\ count >= 5
               strength == StrengthOf(phrase.emphasis)
           IN  /\ strength = "STRONG" <=> pct >= Pct(50, 0)
               /\ strength = "MEDIUM" <=> (viaPercentage \/ viaCount)
               /\ strength = "WEAK"
                      <=> ~(pct >= Pct(50, 0) \/ viaPercentage \/ viaCount)
               /\ phrase.emphasis = "frequently used location" <=> viaPercentage
               /\ phrase.emphasis = "historically used location" <=> viaCount

C6_Witness ==
    /\ phrase.emphasis = "historically used location"
    /\ best_in.percentage = Pct(19, 99)
    /\ best_in.count = 5

\* The call before the last returned an outcome for a part of the part
\* table.
RankedBefore == "status" \in DOMAIN previous

GenerationErrors == {"GenerationError", "AttributeError"}

\* C12: the text generator never blocks a recommendation: no call raises
\* what the generator raised, and whether the generator returns text,
\* returns nothing, raises or is missing, the call for the same part
\* returns the same dict as the last call up to ai_summary.
C12_GenerationNeverBlocks ==
    /\ raised \notin GenerationErrors
    /\ Ranked
           => \A g \in GeminiOutcomes :
                  \E other \in {get_recommendation(result.part_id, points,
                                     TRUE, location, g, audit_enabled, 0,
                                     TRUE)} :
                      /\ other.exc = ""
                      /\ WithoutProse(other.ret) = WithoutProse(result)

C12_Witness ==
    /\ Ranked
    /\ result.status = "ok"
    /\ prompts # <<>>
    /\ result.ai_summary[1] # "gemini"
    /\ result.alternatives # <<>>

\* The strength class of a location by its percentage and count.
StrengthClass(b) ==
    IF b.percentage >= Pct(50, 0) THEN "STRONG"
    ELSE IF b.percentage >= Pct(20, 0) \/ b.count >= 5 THEN "MEDIUM"
    ELSE "WEAK"

\* The text generator was asked and yielded nothing.
GenerationFailed == gemini_in \notin {"", "text"}

\* The template of an explanation.
TemplateOf(text) == text[1]

C14_FailureIsHardError ==
    /\ cli_fetch_failed
           => cli_raised # "" /\ Get(cli_printed, "outcome", "") # "no_history"
    /\ cli_lookup_failed
           => cli_raised # "" /\ Get(cli_printed, "outcome", "") # "all_occupied"

\* How often x occurs in s.
Count(s, x) == Cardinality({i \in 1..Len(s) : s[i] = x})

\* The codes of a list of locations.
Codes(xs) == [i \in 1..Len(xs) |-> CodeOf(xs[i])]

\* What the audit logger is to be given for the result of the last call.
EventOf(r) ==
    [part_id |-> r.part_id,
     part_code |-> r.part_code,
     recommended_location |-> r.recommended.code,
     status |-> "FREE",
     usage_count |-> r.recommended.count,
     usage_percentage |-> r.recommended.percentage,
     alternatives |-> Codes(r.alternatives)]

\* What an enabled audit logger writes for it: the same, with the number
\* of the alternatives in place of their codes.
LineOf(r) ==
    [event_type |-> "recommendation",
     user |-> "system",
     part_id |-> r.part_id,
     part_code |-> r.part_code,
     recommended_location |-> r.recommended.code,
     status |-> "FREE",
     usage_count |-> r.recommended.count,
     usage_percentage |-> r.recommended.percentage,
     alternatives_count |-> Len(r.alternatives)]

\* C15: a call that returns an ok result has given the audit logger one
\* recommendation event, with part id, part code, recommended location,
\* status, usage count, usage percentage and the codes of the
\* alternatives, as its last collaborator call, after every lookup and the
\* text generation, and the logger, when enabled, has written one line for
\* it; a call that returns no_history, all_occupied or part not found has
\* given the logger nothing and nothing was written.
C15_AuditOncePerOk ==
    /\ (Ranked /\ result.status = "ok")
           => /\ audit_calls = <<EventOf(result)>>
              /\ Count(trace, "audit") = 1
              /\ trace[Len(trace)] = "audit"
              /\ audit_log = IF audit_enabled THEN <<LineOf(result)>> ELSE <<>>
    /\ (result # NoDict /\ ~(Ranked /\ result.status = "ok"))
           => /\ audit_calls = <<>>
              /\ audit_log = <<>>
              /\ Count(trace, "audit") = 0

C15_Witness ==
    /\ Ranked
    /\ result.status = "ok"
    /\ Len(result.all_available) = 5
    /\ Len(audit_calls[1].alternatives) = 3
    /\ Count(trace, "lookup") = 5
    /\ audit_log # <<>>

\* The audit logger was given an event and, though enabled, wrote nothing:
\* writing the event failed.
AuditWriteFailed == audit_enabled /\ audit_calls # <<>> /\ audit_log = <<>>

\* C16 as stated: when writing the audit event fails, the call still
\* returns the ok result, with the recommended location and the
\* alternatives it gave the logger.
C16_AuditFireAndForget ==
    AuditWriteFailed
        => /\ raised = ""
           /\ Ranked
           /\ result.status = "ok"
           /\ EventOf(result) = audit_calls[1]

\* The location an operator's text names: the text without the blanks
\* around it, in capitals; nothing for a missing or blank text.
FirstInk(t) == CHOOSE i \in 1..Len(t) :
    t[i] \notin Whitespace /\ \A j \in 1..(i - 1) : t[j] \in Whitespace

LastInk(t) == CHOOSE i \in 1..Len(t) :
    t[i] \notin Whitespace /\ \A j \in (i + 1)..Len(t) : t[j] \in Whitespace

Capital(c) ==
    IF \E k \in 1..26 : LowerCase[k] = c
    THEN UpperCase[CHOOSE k \in 1..26 : LowerCase[k] = c]
    ELSE c

Named(t) ==
    IF t = None \/ \A i \in 1..Len(t) : t[i] \in Whitespace THEN <<>>
    ELSE [i \in 1..(LastInk(t) - FirstInk(t) + 1) |->
             Capital(t[FirstInk(t) + i - 1])]

\* The confirm handler has run on the result shown.
Confirmed == feedback # ""

\* C17: confirming a putaway hands the audit logger one override event,
\* with part id, part code, recommended location, actual location and
\* reason, exactly when the location the operator names is not empty and
\* is not the recommended one, and the logger, when enabled, writes one
\* line for it; confirming the recommended location, or an empty or blank
\* field, hands over and writes nothing.
C17_OverrideOnlyOnDifference ==
    Confirmed
        => LET actual == Named(loc_input)
               event == [part_id |-> result.part_id,
                         part_code |-> result.part_code,
                         recommended_location |-> result.recommended.code,
                         actual_location |-> actual,
                         reason |-> <<"Manual override by user">>]
               line == [event_type |-> "override",
                        user |-> "operator",
                        part_id |-> result.part_id,
                        part_code |-> result.part_code,
                        recommended_location |-> result.recommended.code,
                        actual_location |-> actual,
                        reason |-> <<"Manual override by user">>]
           IN  IF actual # <<>> /\ actual # result.recommended.code
               THEN /\ override_calls = <<event>>
                    /\ override_log = IF audit_enabled THEN <<line>> ELSE <<>>
               ELSE /\ override_calls = <<>>
                    /\ override_log = <<>>

C17_Witness ==
    /\ Confirmed
    /\ loc_input = <<" ">> \o SG01J \o <<" ">>
    /\ result.recommended.code = TN52D
    /\ override_calls # <<>>
    /\ override_calls[1].actual_location = SG01J
    /\ override_log # <<>>

\* Every attempt so far, or every attempt before the last, raised.
AllRaised(n) == \A i \in 1..n : outcomes[i] \in AttemptErrors

\* C18: with max_retries = n >= 1 the wrapped function is attempted at most
\* n times; while the wrapper runs every attempt so far has raised and
\* fewer than n were made; it returns the value of the first attempt that
\* does not raise, which is the last attempt made; and it raises only after
\* n attempts that all raised, and then the exception of the n-th.
C18_BoundedRetry ==
    (max_retries >= 1)
        => /\ attempt = Len(outcomes)
           /\ attempt <= max_retries
           /\ retry_state = "running"
                  => attempt < max_retries /\ AllRaised(attempt)
           /\ retry_state = "returned"
                  => /\ attempt >= 1
                     /\ AllRaised(attempt - 1)
                     /\ outcomes[attempt] \in AttemptValues
                     /\ retry_out = outcomes[attempt]
           /\ retry_state = "raised"
                  => /\ attempt = max_retries
                     /\ AllRaised(attempt)
                     /\ retry_out = outcomes[max_retries]

C18_Witness ==
    /\ retry_variant = "error_handler"
    /\ max_retries = 3
    /\ retry_state = "raised"
    /\ outcomes = <<"ConnectionError", "ConnectionError", "Timeout">>
    /\ retry_out = "Timeout"

\* A record whose code the specification does not exclude.
Accepted(loc) == ~Rejected(CodeOf(loc))

\* The codes to look up: those of the accepted records, in history order.
WantedLookups == Codes(SelectSeq(HistoryLocs, Accepted))

\* C19: a call fetches the history at most once and before any lookup;
\* its lookups are, in history order, one for each record of the history
\* whose code is_valid_location accepts, and none for a rejected code or a
\* second time for a record: all of them when the call returns ok or
\* all_occupied, those up to the failing one when the database fails.
C19_OneLookupPerValidRecord ==
    /\ Count(trace, "fetch") <= 1
    /\ Count(trace, "lookup") = Len(lookups)
    /\ \A i \in 1..Len(trace) :
           trace[i] = "lookup"
               => \E j \in 1..(i - 1) : trace[j] = "fetch"
    /\ Len(lookups) <= Len(WantedLookups)
    /\ lookups = SubSeq(WantedLookups, 1, Len(lookups))
    /\ (Ranked /\ result.status \in {"ok", "all_occupied"})
           => lookups = WantedLookups

C19_Witness ==
    /\ Ranked
    /\ result.status = "ok"
    /\ Len(HistoryLocs) = 2
    /\ CodeOf(HistoryLocs[1]) = FLOOR1
    /\ lookups = <<TN52D>>
    /\ Count(trace, "fetch") = 1

EntryOf(loc) ==
    [code |-> CodeOf(loc),
     count |-> Get(loc, "count", 0),
     percentage |-> Get(loc, "percentage", 0)]

\* The entries of the usable records, in history order.
UsableEntries == [i \in 1..Len(UsableLocs) |-> EntryOf(UsableLocs[i])]

\* C22: all_available holds every usable record of the history (valid code,
\* looked up FREE) as often as the history holds it and nothing else, two
\* records of one code being two entries; and the count of the recommended
\* location is the greatest count of all of them.
C22_AllAvailableIsUsableMultiset ==
    (Ranked /\ result.status = "ok")
        => /\ \A x \in Range(result.all_available) \cup Range(UsableEntries) :
                  Count(result.all_available, x) = Count(UsableEntries, x)
           /\ \A x \in Range(UsableEntries) :
                  result.recommended.count >= x.count
           /\ \E x \in Range(UsableEntries) :
                  result.recommended.count = x.count

C22_Witness ==
    /\ Ranked
    /\ result.status = "ok"
    /\ Len(result.all_available) = 4
    /\ Count(Codes(result.all_available), TN52D) >= 3
    /\ Count(result.all_available, result.all_available[4]) = 2
    /\ Len(UsableLocs) < Len(HistoryLocs)
    /\ result.all_available[4].count < result.recommended.count

\* The part id of the last call has no row in the part table.
PartUnknown == part_id_in # 0 /\ part_id_in \notin DOMAIN PartTable

\* C26: a call for a part id the part table lacks returns an error result
\* (an error message and no status) and does nothing else: it raises
\* nothing, fetches no history, looks up no location, sends no prompt and
\* hands the audit logger nothing; and no other call returns an error result.
C26_UnknownPartDoesNothingElse ==
    /\ PartUnknown
           => /\ DOMAIN result = {"error"}
              /\ raised = ""
              /\ lookups = <<>>
              /\ prompts = <<>>
              /\ audit_calls = <<>>
              /\ audit_log = <<>>
              /\ \A i \in 1..Len(trace) :
                     trace[i] \notin {"fetch", "lookup", "generate", "audit"}
    /\ (result # NoDict /\ "error" \in DOMAIN result) => PartUnknown

C26_Witness ==
    /\ PartUnknown
    /\ "error" \in DOMAIN result
    /\ UsableLocs # <<>>
    /\ audit_enabled

\* b to the power k.
RECURSIVE Power(_, _)
Power(b, k) == IF k = 0 THEN 1 ELSE b * Power(b, k - 1)

\* The wrapper has ended.
RetryEnded == retry_state \in {"returned", "raised"}

\* C23: the k-th wait of retry_on_failure (src/error_handler.py) lasts
\* delay * backoff^(k-1); the wrapper waits once after every failed attempt
\* that another attempt follows and at no other time: while it runs it has
\* waited once for each attempt made, and when it has ended, by a return or
\* by the final failure, it has waited once less than it has attempted; with
\* no attempt there is no wait.
C23_ExponentialBackoff ==
    (retry_variant = "error_handler")
        => /\ \A k \in 1..Len(sleeps) : sleeps[k] = delay * Power(backoff, k - 1)
           /\ (retry_state = "running") => Len(sleeps) = attempt
           /\ (RetryEnded /\ attempt >= 1) => Len(sleeps) = attempt - 1
           /\ (attempt = 0) => sleeps = <<>>
           /\ Len(sleeps) <= max_retries

C23_Witness ==
    /\ retry_variant = "error_handler"
    /\ max_retries = 4
    /\ delay = 2
    /\ retry_state = "raised"
    /\ attempt = 4
    /\ sleeps = <<2, 4, 8>>

\* C24: for every max_retries, 0 included, the wrapper of retry_on_failure
\* (src/error_handler.py) ends only after at least one attempt of the
\* wrapped function, and either returns what the last attempt returned or
\* raises an exception that an attempt raised.
C24_AlwaysAttemptsOnce ==
    (retry_variant = "error_handler" /\ RetryEnded)
        => /\ attempt >= 1
           /\ (retry_state = "returned")
                  => /\ outcomes[attempt] \in AttemptValues
                     /\ retry_out = outcomes[attempt]
           /\ (retry_state = "raised")
                  => \E i \in 1..Len(outcomes) :
                         outcomes[i] \in AttemptErrors /\ retry_out = outcomes[i]

\* The part id a returned dict speaks of.
PartOf(r) == IF "error" \in DOMAIN r THEN r.error[2] ELSE r.part_id

\* A text without any digit is no number.
Unnumbered(t) == \A i \in 1..Len(t) : t[i] \notin Digits

\* C27: a click whose part id is no number or whose call raises shows an
\* error and leaves st.session_state and the rendered result as they were;
\* the session changes only in a click whose call returned, and then to
\* that call's result and part id together; so the rendered result is
\* always the stored result of a completed call for the stored part id.
C27_FailedRequestKeepsSession ==
    [][/\ (Unnumbered(part_id_str') \/ raised' # "") => shown_error' # ""
       /\ (shown_error' # "")
              => session_state' = session_state /\ displayed' = displayed
       /\ (session_state' # session_state)
              => /\ raised' = ""
                 /\ DOMAIN session_state' = {"result", "current_part_id"}
                 /\ session_state'.result = result'
                 /\ session_state'.current_part_id = part_id_in'
       /\ (displayed' # <<>>)
              => /\ displayed' = session_state'.result
                 /\ PartOf(displayed') = session_state'.current_part_id
      ]_vars

C27_Witness ==
    /\ raised = "QdrantError"
    /\ shown_error = "Error"
    /\ part_id_in = 1
    /\ session_state # <<>>
    /\ session_state.current_part_id = 2
    /\ "error" \in DOMAIN displayed

\* The script ran for a part that has a knowledge-base file.
ScriptRan == part_data # NoDict /\ script_printed # <<>>

InventoryOf == Get(part_data, "current_inventory", <<>>)

\* The part has current inventory: its summary counts a location.
HasInventory == Get(InventoryOf, "total_locations", 0) > 0

InventoryList == Get(InventoryOf, "locations", <<>>)

\* The status of a code for the client of the part.
StatusFor(c) ==
    IF c \notin DOMAIN location THEN "UNKNOWN"
    ELSE IF location[c] = NULL THEN "FREE"
    ELSE IF location[c] = part_data.client_id THEN "YOUR_LOCATION"
    ELSE "OCCUPIED"

Consolidable(loc) ==
    /\ ~Rejected(loc.location_code)
    /\ StatusFor(loc.location_code) \in {"FREE", "YOUR_LOCATION"}

\* The valid and available locations of the inventory, in inventory order.
ConsolidableLocs == SelectSeq(InventoryList, Consolidable)

IsRecommendation(line) == line.tag = "RECOMMENDED LOCATION"

\* What the script recommended, location or advisory, in printed order.
Recommendations == SelectSeq(script_printed, IsRecommendation)

RanStrategy(name) ==
    \E i \in 1..Len(script_printed) :
        script_printed[i] = [tag |-> "STRATEGY", arg |-> <<name>>]

\* C28: with current inventory that has a valid location which is FREE or
\* the client's own, the script recommends the first such location in
\* inventory order, and nothing else, without running the historical
\* strategy; the historical strategy runs only for a part without
\* inventory, with only invalid inventory locations, or with none available.
C28_ConsolidationFirst ==
    ScriptRan
        => /\ (HasInventory /\ ConsolidableLocs # <<>>)
                  => /\ Recommendations =
                            << [tag |-> "RECOMMENDED LOCATION",
                                arg |-> ConsolidableLocs[1].location_code] >>
                     /\ RanStrategy("CONSOLIDATION")
                     /\ ~RanStrategy("HISTORICAL PATTERNS")
           /\ RanStrategy("HISTORICAL PATTERNS")
                  => \/ ~HasInventory
                     \/ \A i \in 1..Len(InventoryList) :
                            Rejected(InventoryList[i].location_code)
                     \/ \A i \in 1..Len(InventoryList) :
                            ~Consolidable(InventoryList[i])

C28_Witness ==
    /\ ScriptRan
    /\ HasInventory
    /\ Len(InventoryList) = 2
    /\ StatusFor(InventoryList[1].location_code) = "OCCUPIED"
    /\ StatusFor(InventoryList[2].location_code) = "YOUR_LOCATION"
    /\ Recommendations # <<>>
    /\ Recommendations[1].arg = InventoryList[2].location_code
    /\ Len(Get(part_data, "locations", <<>>)) = 2
    /\ script_lookups = <<InventoryList[1].location_code,
                          InventoryList[2].location_code>>

\* C29: for a part with a knowledge-base file the script ends with exactly
\* one outcome, a recommended location or the consult-supervisor advisory,
\* whatever the inventory summary and the history are.
C29_ExactlyOneOutcome ==
    ScriptRan => Len(Recommendations) = 1

\* The last call got its connection and its cursor, so that it left by one
\* of the ways out of the try block.
EnteredBody == Times(pool_trace, "cursor") = 1

\* The part of C25 that holds: a call that got its connection and its
\* cursor closes the cursor once and returns the connection once, on
\* every way out.
BodyReleases ==
    /\ open_cursors = 0
    /\ EnteredBody
           => /\ Times(pool_trace, "cursor.close") = 1
              /\ Times(pool_trace, "db.close") = 1
              /\ pool_trace[Len(pool_trace)] = "db.close"

\* C25: every call of get_recommendation closes the cursor it opened and
\* returns the connection it took exactly once, on every way out, so that
\* after any sequence of calls the pool holds all its connections again.
C25_EveryCallReleases ==
    /\ BodyReleases
    /\ Times(pool_trace, "db.close") <= 1
    /\ pool_free = pool_size


\* What the call of thread t returns when it runs alone over the snapshot.
RunAlone(t) ==
    IF deployment = "cloud"
    THEN get_recommendation(threads[t].part_id, points, TRUE, location,
                            ThreadGemini, audit_enabled, 0, TRUE)
    ELSE local_get_recommendation(threads[t].part_id, points, location,
                                  ThreadGemini, audit_enabled)

\* C21: of two get_recommendation calls whose statements interleave over
\* one snapshot of the tables, each that has ended has returned, or raised,
\* exactly what it returns or raises when it runs alone.
C21_ConcurrentCallsIndependent ==
    \A t \in DOMAIN threads :
        threads[t].pc = "done"
            => /\ threads[t].exc = RunAlone(t).exc
               /\ threads[t].ret = RunAlone(t).ret

\* The same of the calls of src/app.py, each on its own connection.
C21_OwnConnectionsIndependent ==
    deployment = "cloud" => C21_ConcurrentCallsIndependent

====
